---- MODULE Spec2Model ----
(***************************************************************************)
(* Model of the OpenAPI -> Zod schema compiler: the type converter, the    *)
(* component generator, the operation generator and generate().            *)
(*                                                                         *)
(* Representation.                                                         *)
(*  - A JS object with optional fields is a record whose DOMAIN holds the  *)
(*    fields that are present; the field $ref is named ref.                *)
(*  - An absent / undefined / null schema is the record Null.              *)
(*  - A JS object used as a dictionary (schemas, properties, paths, a path *)
(*    item, responses) is the sequence of its [key, value] entries in      *)
(*    insertion order; Entries gives the order in which JS enumerates it.  *)
(*  - A Map or a Set is a sequence in insertion order, without duplicates. *)
(*  - Emitted text is the sequence of its pieces: every literal piece of a *)
(*    template literal is one token, every interpolated value is spliced   *)
(*    in.  The text is the concatenation of the tokens.                    *)
(***************************************************************************)
EXTENDS Integers, Sequences, FiniteSets, TLC

VARIABLES
    pool,               \* the documents a ZodSchemaGenerator may be constructed with
    openApiDoc,         \* ZodSchemaGenerator.openApiDoc
    pc,                 \* position inside generate()
    runs,               \* number of calls of generate() started
    keys,               \* generateComponentSchemas: names the forEach has still to visit
    generatedSchemas,   \* ComponentGenerator.generatedSchemas
    processingStack,    \* ComponentGenerator.processingStack
    dependencies,       \* the dependencies map of the ComponentGenerator's TypeConverter
    diagnostics,        \* names reported by console.log at componentGenerator.ts:41
    componentFiles,     \* generateComponentSchemas: files
    opEntries,          \* generateOperationSchemas: (path, method, operation) still to visit
    operationSchemas,   \* generateOperationSchemas: operationSchemas
    opDependencies,     \* the dependencies map of the OperationGenerator's TypeConverter
    opsLeft,            \* generateOperationSchemas: records the second forEach has still to visit
    operationFiles,     \* generateOperationSchemas: files
    result,             \* what generate() returned
    history,            \* what earlier calls of generate() returned, per document
    cv                  \* one call of the converter: its arguments and its results

vars == <<pool, openApiDoc, pc, runs, keys, generatedSchemas, processingStack,
          dependencies, diagnostics, componentFiles, opEntries, operationSchemas,
          opDependencies, opsLeft, operationFiles, result, history, cv>>

---------------------------------------------------------------------------
(* JavaScript values *)

Null == [null |-> TRUE]

IsNull(v) == "null" \in DOMAIN v

Has(o, f) == f \in DOMAIN o

\* o.f, undefined (Null) when the field is absent
Get(o, f) == IF f \in DOMAIN o THEN o[f] ELSE Null

Digits == "0123456789"

UpperCase == "ABCDEFGHIJKLMNOPQRSTUVWXYZ"

LowerCase == "abcdefghijklmnopqrstuvwxyz"

CharAt(s, i) == SubSeq(s, i, i)

\* position of the character c in the alphabet s, 0 when it is not there
PosIn(c, s) ==
    IF \E i \in 1..Len(s) : CharAt(s, i) = c
    THEN CHOOSE i \in 1..Len(s) : CharAt(s, i) = c
    ELSE 0

IsUpper(c) == PosIn(c, UpperCase) > 0

IsLower(c) == PosIn(c, LowerCase) > 0

ToUpperChar(c) == IF IsLower(c) THEN CharAt(UpperCase, PosIn(c, LowerCase)) ELSE c

ToLowerChar(c) == IF IsUpper(c) THEN CharAt(LowerCase, PosIn(c, UpperCase)) ELSE c

RECURSIVE MapChars(_, _)
MapChars(s, upper) ==
    IF Len(s) = 0 THEN ""
    ELSE (IF upper THEN ToUpperChar(CharAt(s, 1)) ELSE ToLowerChar(CharAt(s, 1)))
         \o MapChars(SubSeq(s, 2, Len(s)), upper)

toUpperCase(s) == MapChars(s, TRUE)

toLowerCase(s) == MapChars(s, FALSE)

\* s.startsWith(p)
startsWith(s, p) == Len(s) >= Len(p) /\ SubSeq(s, 1, Len(p)) = p

\* s.split('/').pop(): the text after the last slash
RECURSIVE LastSegmentFrom(_, _)
LastSegmentFrom(s, i) ==
    IF i = 0 THEN s
    ELSE IF CharAt(s, i) = "/" THEN SubSeq(s, i + 1, Len(s))
    ELSE LastSegmentFrom(s, i - 1)

LastSegment(s) == LastSegmentFrom(s, Len(s))

\* a key that JS enumerates as an array index: a canonical decimal numeral
IsIndexKey(k) ==
    /\ Len(k) > 0
    /\ \A i \in 1..Len(k) : PosIn(CharAt(k, i), Digits) > 0
    /\ (Len(k) = 1 \/ CharAt(k, 1) # "0")

RECURSIVE IndexValue(_)
IndexValue(k) ==
    IF Len(k) = 0 THEN 0
    ELSE 10 * IndexValue(SubSeq(k, 1, Len(k) - 1)) + (PosIn(CharAt(k, Len(k)), Digits) - 1)

RECURSIVE SortByIndex(_)
SortByIndex(es) ==
    IF Len(es) = 0 THEN <<>>
    ELSE LET m == CHOOSE i \in 1..Len(es) :
                    \A j \in 1..Len(es) : IndexValue(es[i].key) <= IndexValue(es[j].key)
             IsRest(e) == e.key # es[m].key
         IN  <<es[m]>> \o SortByIndex(SelectSeq(es, IsRest))

\* Object.entries(o): integer-like keys first, ascending, then the others in
\* insertion order
Entries(o) ==
    LET IsIdx(e) == IsIndexKey(e.key)
        NotIdx(e) == ~IsIndexKey(e.key)
    IN  SortByIndex(SelectSeq(o, IsIdx)) \o SelectSeq(o, NotIdx)

\* Object.keys(o)
Keys(o) == [i \in 1..Len(o) |-> Entries(o)[i].key]

HasKey(o, k) == \E i \in 1..Len(o) : o[i].key = k

\* o[k], undefined (Null) when there is no such key
Lookup(o, k) ==
    IF HasKey(o, k) THEN o[CHOOSE i \in 1..Len(o) : o[i].key = k].value ELSE Null

\* o[k] = v on a plain object or a Map: an existing key keeps its place
Assign(o, k, v) ==
    IF HasKey(o, k)
    THEN [i \in 1..Len(o) |-> IF o[i].key = k THEN [key |-> k, value |-> v] ELSE o[i]]
    ELSE Append(o, [key |-> k, value |-> v])

\* array.includes(x) and set.has(x)
Includes(s, x) == \E i \in 1..Len(s) : s[i] = x

\* set.add(x) on an insertion-ordered Set
SetAdd(s, x) == IF Includes(s, x) THEN s ELSE Append(s, x)

\* a set whose delete leaves the element in place
SetDeleteNothing(s, x) == s

\* set.delete(x)
SetDelete(s, x) == LET Keep(y) == y # x IN SelectSeq(s, Keep)

---------------------------------------------------------------------------
(* Emitted text *)

\* an interpolated string: the empty string adds no text
Tok(s) == IF s = "" THEN <<>> ELSE <<s>>

\* the value undefined where an expression string is expected
Undefined == <<"\\undefined">>

\* `${x}` of a value that may be undefined
Str(x) == IF x = Undefined THEN <<"undefined">> ELSE x

RECURSIVE Join(_, _)
\* array.join(sep): an undefined element reads as the empty string
Join(xs, sep) ==
    IF Len(xs) = 0 THEN <<>>
    ELSE IF Len(xs) = 1 THEN (IF xs[1] = Undefined THEN <<>> ELSE xs[1])
    ELSE (IF xs[1] = Undefined THEN <<>> ELSE xs[1]) \o <<sep>> \o Join(Tail(xs), sep)

---------------------------------------------------------------------------
(* utils/typeConverter.ts *)

\* this.dependencies.get(schemaName).add(refName), creating the set when needed
AddDependency(deps, schemaName, refName) ==
    Assign(deps, schemaName, SetAdd(IF HasKey(deps, schemaName)
                                    THEN Lookup(deps, schemaName) ELSE <<>>, refName))

EnumLiteral(e) == <<"\"">> \o Tok(e) \o <<"\"">>

FormatSuffix(property) ==
    IF ~Has(property, "format") THEN <<>>
    ELSE IF property.format = "date-time" THEN <<".datetime()">>
    ELSE IF property.format = "date" THEN <<".date()">>
    ELSE IF property.format = "email" THEN <<".email()">>
    ELSE IF property.format = "uuid" THEN <<".uuid()">>
    ELSE IF property.format = "uri" \/ property.format = "url" THEN <<".url()">>
    ELSE <<>>

\* if (property.pattern): an empty pattern is falsy
PatternSuffix(property) ==
    IF Has(property, "pattern") /\ property.pattern # ""
    THEN <<".regex(/", property.pattern, "/)">>
    ELSE <<>>

\* a converter that tests the bound for truthiness: if (property.<field>)
BoundSuffixTruthy(property, field, method) ==
    IF Has(property, field) /\ property[field] # 0
    THEN <<method, ToString(property[field]), ")">>
    ELSE <<>>

\* if (property.<field> !== undefined) zod += `.<method>(${property.<field>})`
BoundSuffix(property, field, method) ==
    IF Has(property, field) THEN <<method, ToString(property[field]), ")">> ELSE <<>>

\* a converter that chains the string constraints to the enum validator too
convertStringEnumChained(property) ==
    (IF Has(property, "enum")
     THEN <<"z.enum([">>
          \o Join([i \in 1..Len(property.enum) |-> EnumLiteral(property.enum[i])], ", ")
          \o <<"])">>
     ELSE <<"z.string()">>)
    \o FormatSuffix(property)
    \o PatternSuffix(property)
    \o BoundSuffix(property, "minLength", ".min(")
    \o BoundSuffix(property, "maxLength", ".max(")

convertString(property) ==
    IF Has(property, "enum")
    THEN <<"z.enum([">>
         \o Join([i \in 1..Len(property.enum) |-> EnumLiteral(property.enum[i])], ", ")
         \o <<"])">>
    ELSE <<"z.string()">>
         \o FormatSuffix(property)
         \o PatternSuffix(property)
         \o BoundSuffix(property, "minLength", ".min(")
         \o BoundSuffix(property, "maxLength", ".max(")

convertNumber(property, type) ==
    (IF type = "integer" THEN <<"z.number().int()">> ELSE <<"z.number()">>)
    \o BoundSuffix(property, "minimum", ".min(")
    \o BoundSuffix(property, "maximum", ".max(")

\* additionalProperties is false, true or a schema; a boolean b is [bool |-> b]
IsBool(ap, b) == Has(ap, "bool") /\ ap.bool = b

RECURSIVE convertType(_, _, _, _, _, _)
RECURSIVE convertAll(_, _, _, _, _, _)
RECURSIVE convertArray(_, _, _, _, _, _)
RECURSIVE convertObject(_, _, _, _, _, _)

\* list.map(s => this.convertType(s, currentPath, schemaName, isInline)),
\* the dependency map threaded through the calls in order
convertAll(schemas, deps, list, currentPath, schemaName, isInline) ==
    IF Len(list) = 0 THEN [outs |-> <<>>, deps |-> deps]
    ELSE LET Rest(first, rest) == [outs |-> <<first.out>> \o rest.outs, deps |-> rest.deps]
             First(first) ==
                 Rest(first, convertAll(schemas, first.deps, Tail(list), currentPath,
                                        schemaName, isInline))
         IN  First(convertType(schemas, deps, list[1], currentPath, schemaName, isInline))

convertArray(schemas, deps, property, currentPath, schemaName, isInline) ==
    LET Wrap(items) ==
            [out |-> <<"z.array(">> \o Str(items.out) \o <<")">>
                     \o BoundSuffix(property, "minItems", ".min(")
                     \o BoundSuffix(property, "maxItems", ".max("),
             deps |-> items.deps]
    IN  Wrap(convertType(schemas, deps, Get(property, "items"), currentPath, schemaName,
                         isInline))

\* a converter that takes every property for required once a required list exists
IsRequiredAny(property, key) == Has(property, "required")

\* const isRequired = property.required && property.required.includes(key)
IsRequired(property, key) == Has(property, "required") /\ Includes(property.required, key)

\* `z.object({\n${props}\n})` of the property lines `  ${key}: ${zodType}${optionalModifier}`
ObjectShape(property, es, outs) ==
    <<"z.object({\n">>
    \o Join([i \in 1..Len(es) |->
               <<"  ">> \o Tok(es[i].key) \o <<": ">> \o Str(outs[i])
               \o (IF IsRequired(property, es[i].key) THEN <<>> ELSE <<".optional()">>)],
            ",\n")
    \o <<"\n})">>

convertObject(schemas, deps, property, currentPath, schemaName, isInline) ==
    IF Has(property, "properties")
    THEN LET ap == Get(property, "additionalProperties")
             Catchall(zodObject, additionalSchema) ==
                 [out |-> zodObject \o <<".catchall(">> \o Str(additionalSchema.out) \o <<")">>,
                  deps |-> additionalSchema.deps]
             Policy(zodObject, deps1) ==
                 IF IsBool(ap, FALSE)
                 THEN [out |-> zodObject \o <<".strict()">>, deps |-> deps1]
                 ELSE IF IsBool(ap, TRUE)
                 THEN [out |-> zodObject \o <<".catchall(z.unknown())">>, deps |-> deps1]
                 ELSE IF ~IsNull(ap)
                 THEN Catchall(zodObject,
                               convertType(schemas, deps1, ap, currentPath, schemaName, isInline))
                 ELSE [out |-> zodObject, deps |-> deps1]
             Props(es, vals) == Policy(ObjectShape(property, es, vals.outs), vals.deps)
             Values(es) ==
                 Props(es, convertAll(schemas, deps, [i \in 1..Len(es) |-> es[i].value],
                                      currentPath, schemaName, isInline))
         IN  Values(Entries(property.properties))
    ELSE [out |-> <<"z.record(z.unknown())">>, deps |-> deps]

\* a converter that tracks dependencies in inline mode too
TrackDependencyInline(deps, schemaName, refName, isInline) ==
    IF schemaName # "" /\ refName # ""
    THEN Assign(deps, schemaName, SetAdd(IF HasKey(deps, schemaName)
                                         THEN Lookup(deps, schemaName) ELSE <<>>, refName))
    ELSE deps

\* the dependency map after the tracking of lines 22-27
TrackDependency(deps, schemaName, refName, isInline) ==
    IF schemaName # "" /\ refName # "" /\ ~isInline
    THEN AddDependency(deps, schemaName, refName)
    ELSE deps

\* a converter that looks for the name at the top of the path stack only
InCycleLast(currentPath, refName) ==
    Len(currentPath) > 0 /\ currentPath[Len(currentPath)] = refName

\* if (currentPath.includes(refName))
InCycle(currentPath, refName) == Includes(currentPath, refName)

\* a converter that wraps a single child of allOf too
AllOfExprWrapped(schemas) ==
    IF Len(schemas) > 0
    THEN <<"z.intersection(">> \o Join(schemas, ", ") \o <<")">>
    ELSE Undefined

\* schemas.length > 1 ? `z.intersection(${schemas.join(', ')})` : schemas[0]
AllOfExpr(schemas) ==
    IF Len(schemas) > 1
    THEN <<"z.intersection(">> \o Join(schemas, ", ") \o <<")">>
    ELSE IF Len(schemas) = 1 THEN schemas[1] ELSE Undefined

\* `z.union([${schemas.join(', ')}])` of the oneOf branch
OneOfExpr(schemas) == <<"z.union([">> \o Join(schemas, ", ") \o <<"])">>

\* a converter that unwraps a single child of anyOf as it does for allOf
AnyOfExprUnwrapped(schemas) ==
    IF Len(schemas) = 1 THEN schemas[1]
    ELSE <<"z.union([">> \o Join(schemas, ", ") \o <<"])">>

\* `z.union([${schemas.join(', ')}])` of the anyOf branch
AnyOfExpr(schemas) == <<"z.union([">> \o Join(schemas, ", ") \o <<"])">>

convertType(schemas, deps, property, currentPath, schemaName, isInline) ==
    IF IsNull(property) THEN [out |-> <<"z.unknown()">>, deps |-> deps]
    ELSE IF Has(property, "ref") /\ property.ref # ""
    THEN LET Resolve(refName, deps1) ==
                 IF InCycle(currentPath, refName)
                 THEN [out |-> <<"z.lazy(() => ">> \o Tok(refName) \o <<")">>, deps |-> deps1]
                 ELSE IF isInline /\ ~IsNull(Lookup(schemas, refName))
                 THEN convertType(schemas, deps1, Lookup(schemas, refName),
                                  Append(currentPath, refName), refName, TRUE)
                 ELSE [out |-> Tok(refName), deps |-> deps1]
             Track(refName) ==
                 Resolve(refName, TrackDependency(deps, schemaName, refName, isInline))
         IN  Track(LastSegment(property.ref))
    ELSE IF Has(property, "allOf") \/ Has(property, "oneOf") \/ Has(property, "anyOf")
    THEN LET Combine(cs) ==
                 [out |-> IF Has(property, "allOf") THEN AllOfExpr(cs.outs)
                          ELSE IF Has(property, "oneOf") THEN OneOfExpr(cs.outs)
                          ELSE AnyOfExpr(cs.outs),
                  deps |-> cs.deps]
         IN  Combine(convertAll(schemas, deps,
                                IF Has(property, "allOf") THEN property.allOf
                                ELSE IF Has(property, "oneOf") THEN property.oneOf
                                ELSE property.anyOf,
                                currentPath, schemaName, isInline))
    ELSE LET type == IF Has(property, "type") THEN property.type ELSE ""
         IN  IF type = "string" THEN [out |-> convertString(property), deps |-> deps]
             ELSE IF type = "number" \/ type = "integer"
             THEN [out |-> convertNumber(property, type), deps |-> deps]
             ELSE IF type = "boolean" THEN [out |-> <<"z.boolean()">>, deps |-> deps]
             ELSE IF type = "array"
             THEN convertArray(schemas, deps, property, currentPath, schemaName, isInline)
             ELSE IF type = "object"
             THEN convertObject(schemas, deps, property, currentPath, schemaName, isInline)
             ELSE IF type = "null" THEN [out |-> <<"z.null()">>, deps |-> deps]
             ELSE [out |-> <<"z.unknown()">>, deps |-> deps]

\* this.dependencies.get(schemaName) || new Set()
getDependencies(deps, schemaName) ==
    IF HasKey(deps, schemaName) THEN Lookup(deps, schemaName) ELSE <<>>

---------------------------------------------------------------------------
(* utils/helpers.ts *)

RECURSIVE UpperRun(_, _)
\* the number of consecutive upper-case letters of s from position i
UpperRun(s, i) ==
    IF i <= Len(s) /\ IsUpper(CharAt(s, i)) THEN 1 + UpperRun(s, i + 1) ELSE 0

RECURSIVE LowerRun(_, _)
LowerRun(s, i) ==
    IF i <= Len(s) /\ IsLower(CharAt(s, i)) THEN 1 + LowerRun(s, i + 1) ELSE 0

RECURSIVE MatchWords(_, _)
\* name.match(/[A-Z][a-z]+|[A-Z]+(?=[A-Z])|[a-z]+/g) from position i
MatchWords(s, i) ==
    IF i > Len(s) THEN <<>>
    ELSE IF IsUpper(CharAt(s, i)) /\ LowerRun(s, i + 1) >= 1
    THEN <<SubSeq(s, i, i + LowerRun(s, i + 1))>> \o MatchWords(s, i + 1 + LowerRun(s, i + 1))
    ELSE IF UpperRun(s, i) >= 2
    THEN <<SubSeq(s, i, i + UpperRun(s, i) - 2)>> \o MatchWords(s, i + UpperRun(s, i) - 1)
    ELSE IF LowerRun(s, i) >= 1
    THEN <<SubSeq(s, i, i + LowerRun(s, i) - 1)>> \o MatchWords(s, i + LowerRun(s, i))
    ELSE MatchWords(s, i + 1)

RECURSIVE JoinWords(_)
\* words.join(' ')
JoinWords(ws) ==
    IF Len(ws) = 0 THEN ""
    ELSE IF Len(ws) = 1 THEN ws[1]
    ELSE ws[1] \o " " \o JoinWords(Tail(ws))

generateDescription(name) ==
    LET description == toLowerCase(JoinWords(MatchWords(name, 1)))
    IN  IF Len(description) = 0 THEN ""
        ELSE ToUpperChar(CharAt(description, 1)) \o SubSeq(description, 2, Len(description))

RECURSIVE getPropertyType(_)
getPropertyType(propSchema) ==
    IF Has(propSchema, "ref") /\ propSchema.ref # "" THEN LastSegment(propSchema.ref)
    ELSE LET type == IF Has(propSchema, "type") THEN propSchema.type ELSE ""
         IN  IF type = "string" THEN "string"
             ELSE IF type = "number" THEN "number"
             ELSE IF type = "integer" THEN "number"
             ELSE IF type = "boolean" THEN "boolean"
             ELSE IF type = "array"
             THEN (IF Has(propSchema, "items") THEN getPropertyType(propSchema.items) ELSE "any")
                  \o "[]"
             ELSE IF type = "object" THEN "object"
             ELSE "any"

\* a test for component references that expects another prefix
isComponentSchemaDefinitions(schema) ==
    /\ ~IsNull(schema)
    /\ Has(schema, "ref")
    /\ schema.ref # ""
    /\ startsWith(schema.ref, "#/definitions/")

isComponentSchema(schema) ==
    /\ ~IsNull(schema)
    /\ Has(schema, "ref")
    /\ schema.ref # ""
    /\ startsWith(schema.ref, "#/components/schemas/")

RECURSIVE findComponentReferences(_, _)
RECURSIVE findAllReferences(_, _)

\* list.forEach(s => findComponentReferences(s, references))
findAllReferences(list, references) ==
    IF Len(list) = 0 THEN references
    ELSE findAllReferences(Tail(list), findComponentReferences(list[1], references))

findComponentReferences(schema, references) ==
    IF IsNull(schema) THEN references
    ELSE IF isComponentSchema(schema) THEN SetAdd(references, LastSegment(schema.ref))
    ELSE LET r1 == IF Has(schema, "allOf") THEN findAllReferences(schema.allOf, references)
                   ELSE references
             r2 == IF Has(schema, "oneOf") THEN findAllReferences(schema.oneOf, r1) ELSE r1
             r3 == IF Has(schema, "anyOf") THEN findAllReferences(schema.anyOf, r2) ELSE r2
             r4 == IF Has(schema, "properties")
                   THEN LET es == Entries(schema.properties)
                        IN  findAllReferences([i \in 1..Len(es) |-> es[i].value], r3)
                   ELSE r3
         IN  IF Has(schema, "items") THEN findComponentReferences(schema.items, r4) ELSE r4

---------------------------------------------------------------------------
(* generators/componentGenerator.ts *)

\* a generator whose converter keeps the dependency map of the previous one
StaleComponentGenerator ==
    [generatedSchemas |-> <<>>, processingStack |-> <<>>, dependencies |-> dependencies]

\* the state of a ComponentGenerator as its constructor leaves it
NewComponentGenerator ==
    [generatedSchemas |-> <<>>, processingStack |-> <<>>, dependencies |-> <<>>]

\* a generator that imports every dependency, in the table or not
ComponentImportsUnfiltered(schemas, deps) ==
    <<<<"import { z } from 'zod';">>>>
    \o [i \in 1..Len(deps) |->
          <<"import { ">> \o Tok(deps[i]) \o <<" } from './">> \o Tok(deps[i]) \o <<".js';">>]

\* the import lines of a component: the validator library, then one line per
\* dependency that exists in the table
ComponentImports(schemas, deps) ==
    LET Exists(depName) == ~IsNull(Lookup(schemas, depName))
        present == SelectSeq(deps, Exists)
    IN  <<<<"import { z } from 'zod';">>>>
        \o [i \in 1..Len(present) |->
              <<"import { ">> \o Tok(present[i]) \o <<" } from './">> \o Tok(present[i])
              \o <<".js';">>]

\* the JSDoc comment of a component
ComponentJsDoc(schema, name) ==
    LET description == IF Has(schema, "description") /\ schema.description # ""
                       THEN schema.description ELSE generateDescription(name)
        properties == IF Has(schema, "properties") THEN Entries(schema.properties) ELSE <<>>
        required == IF Has(schema, "required") THEN schema.required ELSE <<>>
        PropLine(e) ==
            <<" * @property {">> \o Tok(getPropertyType(e.value)) \o <<"} ">> \o Tok(e.key)
            \o (IF Includes(required, e.key) THEN <<>> ELSE <<"?">>)
            \o <<" - ">>
            \o Tok(IF Has(e.value, "description") /\ e.value.description # ""
                   THEN e.value.description ELSE e.key)
    IN  <<<<"/**">>, <<" * ">> \o Tok(description)>>
        \o (IF Len(properties) > 0
            THEN <<<<" *">>>> \o [i \in 1..Len(properties) |-> PropLine(properties[i])]
            ELSE <<>>)
        \o <<<<" */">>>>

\* a generator that starts the conversion on an empty path stack
InitialPathEmpty(name) == <<>>

\* the path stack a component's conversion starts with: [name]
InitialPath(name) == <<name>>

\* a generator that does not test whether the name has a schema
HasSchemaUnchecked(schemas, name) == TRUE

\* const schema = this.schemas[name]; if (!schema) return null
HasSchema(schemas, name) == ~IsNull(Lookup(schemas, name))

\* the text of a component's file, lines 84-91
ComponentContent(name, imports, jsDoc, zodSchema) ==
    Join(imports
         \o <<<<>>>>
         \o jsDoc
         \o << <<"export const ">> \o Tok(name) \o <<" = ">> \o Str(zodSchema) \o <<";">>,
               <<"export type ">> \o Tok(name) \o <<"Type = z.infer<typeof ">> \o Tok(name)
                 \o <<">;">>,
               <<>> >>,
         "\n")

\* generateSchemaFile(name) on the generator state g = [generatedSchemas,
\* processingStack, dependencies]: the file it returns (Null for null), the
\* state it leaves and what it logs
generateSchemaFile(schemas, g, name) ==
    IF HasKey(g.generatedSchemas, name)
    THEN [file |-> Lookup(g.generatedSchemas, name), g |-> g, log |-> <<>>]
    ELSE IF Includes(g.processingStack, name)
    THEN [file |-> Null, g |-> g, log |-> <<name>>]
    ELSE IF ~HasSchema(schemas, name)
    THEN [file |-> Null, g |-> g, log |-> <<>>]
    ELSE LET Finish(file, deps) ==
                 [file |-> file,
                  g |-> [generatedSchemas |-> Assign(g.generatedSchemas, name, file),
                         processingStack |-> SetDelete(SetAdd(g.processingStack, name), name),
                         dependencies |-> deps],
                  log |-> <<>>]
             Emit(schema, conv) ==
                 Finish([fileName |-> name \o ".ts",
                         content |->
                            ComponentContent(name,
                                ComponentImports(schemas, getDependencies(conv.deps, name)),
                                ComponentJsDoc(schema, name), conv.out)],
                        conv.deps)
             Convert(schema) ==
                 Emit(schema, convertType(schemas, g.dependencies, schema, InitialPath(name),
                                          name, FALSE))
         IN  Convert(Lookup(schemas, name))

---------------------------------------------------------------------------
(* generators/operationGenerator.ts *)

\* body?.content?.['application/json']?.schema, Null when any link is missing
JsonSchemaOf(body) ==
    IF /\ ~IsNull(body)
       /\ Has(body, "content")
       /\ Has(body.content, "application/json")
       /\ Has(body.content["application/json"], "schema")
    THEN body.content["application/json"].schema
    ELSE Null

RECURSIVE FlattenPaths(_)
\* the (pathName, method, operation) triples in the order of the two nested
\* forEach loops over Object.entries
FlattenPaths(pathEntries) ==
    IF Len(pathEntries) = 0 THEN <<>>
    ELSE LET item == Entries(pathEntries[1].value)
         IN  [i \in 1..Len(item) |->
                [pathName |-> pathEntries[1].key, method |-> item[i].key,
                 operation |-> item[i].value]]
             \o FlattenPaths(Tail(pathEntries))

\* the guard of line 23: the entry is an operation with a non-empty operationId
IsOperation(operation) ==
    /\ ~IsNull(operation)
    /\ ~Has(operation, "primitive")
    /\ Has(operation, "operationId")
    /\ operation.operationId # ""

RECURSIVE CollectResponses(_, _)
\* the forEach over Object.entries(responses), lines 51-59
CollectResponses(responses, entries) ==
    IF Len(entries) = 0 THEN responses
    ELSE LET statusCode == entries[1].key
             resp == entries[1].value
             schema == JsonSchemaOf(resp)
             next == IF IsNull(schema) THEN responses
                     ELSE Assign(responses, statusCode,
                                 [description |->
                                     IF Has(resp, "description") /\ resp.description # ""
                                     THEN <<resp.description>>
                                     ELSE <<"Response ">> \o Tok(statusCode),
                                  schema |-> schema])
         IN  CollectResponses(next, Tail(entries))

\* the body of the inner forEach, lines 22-61, on the map operationSchemas
CollectOperation(opSchemas, pathName, method, operation) ==
    IF ~IsOperation(operation) THEN opSchemas
    ELSE LET operationId == operation.operationId
             created == IF HasKey(opSchemas, operationId) THEN opSchemas
                        ELSE Assign(opSchemas, operationId,
                                    [operationId |-> operationId,
                                     summary |-> IF Has(operation, "summary")
                                                    /\ operation.summary # ""
                                                 THEN operation.summary
                                                 ELSE generateDescription(operationId),
                                     method |-> toUpperCase(method),
                                     path |-> pathName,
                                     request |-> Null,
                                     responses |-> <<>>])
             opSchema == Lookup(created, operationId)
             requestSchema == JsonSchemaOf(Get(operation, "requestBody"))
             withRequest == IF IsNull(requestSchema) THEN opSchema
                            ELSE [opSchema EXCEPT !.request = requestSchema]
             withResponses ==
                 IF Has(operation, "responses")
                 THEN [withRequest EXCEPT !.responses =
                          CollectResponses(withRequest.responses, Entries(operation.responses))]
                 ELSE withRequest
         IN  Assign(created, operationId, withResponses)

\* const isRequired = schema.required && schema.required.includes(key)
ResponseIsRequired(schema, key) == Has(schema, "required") /\ Includes(schema.required, key)

RECURSIVE ConvertResponseProps(_, _, _, _)
\* the map over Object.entries(schema.properties), lines 159-174: the lines,
\* the component references added and the converter's dependency map
ConvertResponseProps(schemas, st, schema, es) ==
    IF Len(es) = 0 THEN st
    ELSE LET Line(key, conv) ==
                 <<"  ">> \o Tok(key) \o <<": ">> \o Str(conv.out)
                 \o (IF ResponseIsRequired(schema, key) THEN <<>> ELSE <<".optional()">>)
             Step(key, value, conv) ==
                 ConvertResponseProps(schemas,
                     [lines |-> Append(st.lines, Line(key, conv)),
                      refs |-> IF isComponentSchema(value)
                               THEN SetAdd(st.refs, LastSegment(value.ref)) ELSE st.refs,
                      deps |-> conv.deps],
                     schema, Tail(es))
             Value(key, value) ==
                 Step(key, value,
                      IF isComponentSchema(value)
                      THEN [out |-> Tok(LastSegment(value.ref)), deps |-> st.deps]
                      ELSE convertType(schemas, st.deps, value, <<>>, "", TRUE))
         IN  Value(es[1].key, es[1].value)

\* convertResponseSchema(schema, componentRefs): the expression, componentRefs
\* as it leaves it and the converter's dependency map
convertResponseSchema(schemas, deps, schema, componentRefs) ==
    IF IsNull(schema) THEN [out |-> <<"z.unknown()">>, refs |-> componentRefs, deps |-> deps]
    ELSE IF isComponentSchema(schema)
    THEN [out |-> Tok(LastSegment(schema.ref)), refs |-> componentRefs, deps |-> deps]
    ELSE IF Has(schema, "type") /\ schema.type = "object" /\ Has(schema, "properties")
    THEN LET Shape(st) ==
                 [out |-> <<"z.object({\n">> \o Join(st.lines, ",\n") \o <<"\n})">>,
                  refs |-> st.refs, deps |-> st.deps]
         IN  Shape(ConvertResponseProps(schemas,
                                        [lines |-> <<>>, refs |-> componentRefs, deps |-> deps],
                                        schema, Entries(schema.properties)))
    ELSE LET Inline(conv) == [out |-> conv.out, refs |-> componentRefs, deps |-> conv.deps]
         IN  Inline(convertType(schemas, deps, schema, <<>>, "", TRUE))

\* the component references of an operation record, lines 72-83
OperationComponentRefs(opSchema) ==
    LET fromRequest == IF ~IsNull(opSchema.request) /\ isComponentSchema(opSchema.request)
                       THEN <<LastSegment(opSchema.request.ref)>> ELSE <<>>
        rs == Entries(opSchema.responses)
    IN  findAllReferences([i \in 1..Len(rs) |-> rs[i].value.schema], fromRequest)

\* the import lines of an operation, lines 66-67 and 86-92
OperationImports(schemas, componentRefs) ==
    LET Exists(schemaName) == ~IsNull(Lookup(schemas, schemaName))
        Lines(present) ==
            <<<<"import { z } from 'zod';">>>>
            \o [i \in 1..Len(present) |->
                  <<"import { ">> \o Tok(present[i]) \o <<" } from '../_components/">>
                  \o Tok(present[i]) \o <<".js';">>]
    IN  Lines(SelectSeq(componentRefs, Exists))

\* an assembler that converts an inline request body without the inline flag
RequestLinesByReference(schemas, deps, opSchema) ==
    IF IsNull(opSchema.request) THEN [lines |-> <<>>, deps |-> deps]
    ELSE LET Lines(conv) ==
                 [lines |-> << <<"/**">>, <<" * Request schema">>, <<" */">>,
                               <<"export const Request = ">> \o Str(conv.out) \o <<";">>,
                               <<"export type RequestType = z.infer<typeof Request>;">>,
                               <<>> >>,
                  deps |-> conv.deps]
         IN  Lines(IF isComponentSchema(opSchema.request)
                   THEN [out |-> Tok(LastSegment(opSchema.request.ref)), deps |-> deps]
                   ELSE convertType(schemas, deps, opSchema.request, <<>>, "Request", FALSE))

\* the request part of an operation's content, lines 106-122
RequestLines(schemas, deps, opSchema) ==
    IF IsNull(opSchema.request) THEN [lines |-> <<>>, deps |-> deps]
    ELSE LET Lines(conv) ==
                 [lines |-> << <<"/**">>, <<" * Request schema">>, <<" */">>,
                               <<"export const Request = ">> \o Str(conv.out) \o <<";">>,
                               <<"export type RequestType = z.infer<typeof Request>;">>,
                               <<>> >>,
                  deps |-> conv.deps]
         IN  Lines(IF isComponentSchema(opSchema.request)
                   THEN [out |-> Tok(LastSegment(opSchema.request.ref)), deps |-> deps]
                   ELSE convertType(schemas, deps, opSchema.request, <<>>, "Request", TRUE))

RECURSIVE ResponseLines(_, _, _)
\* the response part of an operation's content, lines 125-135; st carries the
\* lines, componentRefs and the converter's dependency map
ResponseLines(schemas, st, rs) ==
    IF Len(rs) = 0 THEN st
    ELSE LET Lines(statusCode, response, conv) ==
                 ResponseLines(schemas,
                     [lines |-> st.lines
                                \o << <<"/**">>,
                                      <<" * Response ">> \o Tok(statusCode) \o <<": ">>
                                        \o response.description,
                                      <<" */">>,
                                      <<"export const Response">> \o Tok(statusCode)
                                        \o <<" = ">> \o Str(conv.out) \o <<";">>,
                                      <<"export type Response">> \o Tok(statusCode)
                                        \o <<"Type = z.infer<typeof Response">>
                                        \o Tok(statusCode) \o <<">;">>,
                                      <<>> >>,
                      refs |-> conv.refs, deps |-> conv.deps],
                     Tail(rs))
             Response(statusCode, response) ==
                 Lines(statusCode, response,
                       convertResponseSchema(schemas, st.deps, response.schema, st.refs))
         IN  Response(rs[1].key, rs[1].value)

\* the documentation header of an operation, lines 96-103
OperationHeader(opSchema) ==
    << <<"/**">>,
       <<" * ">> \o Tok(opSchema.summary),
       <<" * ">>,
       <<" * @operationId ">> \o Tok(opSchema.operationId),
       <<" * @method ">> \o Tok(opSchema.method),
       <<" * @path ">> \o Tok(opSchema.path),
       <<" */">>,
       <<>> >>

\* the body of the second forEach, lines 65-143: the file of one operation and
\* the converter's dependency map after it
EmitOperationFile(schemas, deps, opSchema, dirName) ==
    LET File(componentRefs, request, responses) ==
            [file |-> [dirName |-> dirName, fileName |-> "schema.ts",
                       content |-> Join(OperationImports(schemas, componentRefs) \o <<<<>>>>
                                        \o OperationHeader(opSchema)
                                        \o request.lines \o responses.lines,
                                        "\n")],
             deps |-> responses.deps]
        Responses(componentRefs, request) ==
            File(componentRefs, request,
                 ResponseLines(schemas,
                               [lines |-> <<>>, refs |-> componentRefs, deps |-> request.deps],
                               Entries(opSchema.responses)))
        Request(componentRefs) ==
            Responses(componentRefs, RequestLines(schemas, deps, opSchema))
    IN  Request(OperationComponentRefs(opSchema))

---------------------------------------------------------------------------
(* Documents *)

MaxRuns == 3

NumNames == 2

MaxNum == 1

MaxProps == 2

RefTo(name) == [ref |-> "#/components/schemas/" \o name]

JsonBody(schema) == [content |-> ("application/json" :> [schema |-> schema])]

Entry(k, v) == [key |-> k, value |-> v]

Doc(schemas, paths) == [components |-> [schemas |-> schemas], paths |-> paths]

\* openApiDoc.components?.schemas || {}
SchemasOf(doc) ==
    IF Has(doc, "components") /\ Has(doc.components, "schemas")
    THEN doc.components.schemas ELSE <<>>

\* openApiDoc.paths || {}
PathsOf(doc) == IF Has(doc, "paths") THEN doc.paths ELSE <<>>

NamePool == <<"A", "B", "C", "D", "E">>

Names == SubSeq(NamePool, 1, NumNames)

\* an object with the single, required property next
LinkTo(name) ==
    [type |-> "object", properties |-> <<Entry("next", RefTo(name))>>, required |-> <<"next">>]

\* what a component of a generated table may be: a link to a component of the
\* table, a link to a name that is not in the table, a string, or no schema
ComponentShapes ==
    {LinkTo(Names[i]) : i \in 1..NumNames} \cup {LinkTo("Ghost"), [type |-> "string"], Null}

\* one operation whose request body is an inline object around the first
\* component and whose response is a list of the last
ItemsPaths ==
    <<Entry("/items",
            <<Entry("post",
                    [operationId |-> "items.create",
                     requestBody |-> JsonBody([type |-> "object",
                                               properties |-> <<Entry("item", RefTo(Names[1]))>>]),
                     responses |-> <<Entry("200",
                                           JsonBody([type |-> "array",
                                                     items |-> RefTo(Names[NumNames])]))>>])>>)>>

\* every table over Names, each with the operation above
TableDocs ==
    {Doc([i \in 1..NumNames |-> Entry(Names[i], f[i])], ItemsPaths) :
        f \in [1..NumNames -> ComponentShapes]}

UserSchema ==
    [type |-> "object",
     properties |-> <<Entry("id", [type |-> "string"]),
                      Entry("email", [type |-> "string", format |-> "email"])>>,
     required |-> <<"id">>]

\* the document of the end-to-end example
UserDoc ==
    Doc(<<Entry("User", UserSchema)>>,
        <<Entry("/users",
                <<Entry("post",
                        [operationId |-> "user.create",
                         requestBody |-> JsonBody(RefTo("User")),
                         responses |-> <<Entry("201",
                                               JsonBody([type |-> "object",
                                                         properties |->
                                                            <<Entry("data", RefTo("User"))>>]))>>])>>)>>)

\* two documents that give the same names different shapes
NodeDoc ==
    Doc(<<Entry("Node", LinkTo("Leaf")), Entry("Leaf", [type |-> "string"])>>, <<>>)

LoopDoc ==
    Doc(<<Entry("Node", LinkTo("Node")), Entry("Leaf", [type |-> "boolean"])>>, <<>>)

\* a document whose component and operations refer to a shape that is not in
\* the table: under a property, as a request body, under a response property
GhostDoc ==
    Doc(<<Entry("Known", LinkTo("Ghost")), Entry("Plain", [type |-> "string"])>>,
        <<Entry("/ghosts",
                <<Entry("get",
                        [operationId |-> "ghost.read",
                         requestBody |-> JsonBody([type |-> "object",
                                                   properties |-> <<Entry("item", RefTo("Ghost"))>>]),
                         responses |-> <<Entry("200",
                                               JsonBody([type |-> "object",
                                                         properties |->
                                                            <<Entry("data", RefTo("Ghost")),
                                                              Entry("known", RefTo("Known"))>>]))>>]),
                  Entry("put",
                        [operationId |-> "ghost.write",
                         requestBody |-> JsonBody(RefTo("Ghost")),
                         responses |-> <<Entry("200",
                                               JsonBody([type |-> "array",
                                                         items |-> RefTo("Ghost")]))>>])>>)>>)

\* a document whose operationId is the group name of the components
ClashDoc ==
    Doc(<<Entry("schema", [type |-> "string"])>>,
        <<Entry("/clash",
                <<Entry("get",
                        [operationId |-> "_components",
                         responses |-> <<Entry("200", JsonBody([type |-> "boolean"]))>>])>>)>>)

\* a document with three entries of the path table under one operationId,
\* an operation without a request body and one with an inline request body
MergeDoc ==
    Doc(<<Entry("User", UserSchema)>>,
        <<Entry("/a",
                <<Entry("post",
                        [operationId |-> "merge",
                         requestBody |-> JsonBody([type |-> "string"]),
                         responses |-> <<Entry("200", JsonBody([type |-> "string"]))>>]),
                  Entry("put",
                        [operationId |-> "merge",
                         requestBody |-> JsonBody(RefTo("User")),
                         responses |-> <<Entry("200", JsonBody([type |-> "boolean"])),
                                         Entry("404", JsonBody([type |-> "null"]))>>])>>),
          Entry("/b",
                <<Entry("get",
                        [operationId |-> "merge",
                         responses |-> <<Entry("500", JsonBody(RefTo("User")))>>]),
                  Entry("delete",
                        [operationId |-> "bare",
                         responses |-> <<Entry("204", JsonBody([type |-> "null"]))>>]),
                  Entry("post",
                        [operationId |-> "inline",
                         requestBody |-> JsonBody([type |-> "object",
                                                   properties |-> <<Entry("item", RefTo("User"))>>,
                                                   additionalProperties |-> [bool |-> FALSE]]),
                         responses |-> <<Entry("200", JsonBody(RefTo("User")))>>])>>)>>)

\* a document whose first component holds references at every place of its
\* tree: under a property (to itself), as the items of a list, in a
\* composition, in a nested object (to a missing shape), as the schema of the
\* additional properties; the other components refer to less, the last two
\* are a dictionary of references and a dictionary of dictionaries of its kind
TreeDoc ==
    Doc(<<Entry("Tree",
                [type |-> "object",
                 properties |->
                    <<Entry("self", RefTo("Tree")),
                      Entry("list", [type |-> "array", items |-> RefTo("Leaf")]),
                      Entry("both", [allOf |-> <<RefTo("Leaf"), RefTo("Other")>>]),
                      Entry("inner", [type |-> "object",
                                      properties |-> <<Entry("g", RefTo("Ghost"))>>])>>,
                 additionalProperties |-> RefTo("User")]),
          Entry("Leaf", [type |-> "string"]),
          Entry("Other", LinkTo("Leaf")),
          Entry("User", UserSchema),
          Entry("Dict", [type |-> "object", additionalProperties |-> RefTo("User")]),
          Entry("Bag", [type |-> "object", additionalProperties |-> RefTo("Bag")])>>,
        <<>>)

\* a document whose path item holds entries that are no operations (shared
\* parameters, an empty operationId, no operationId) and one operation that
\* declares its status codes in descending order
OrderDoc ==
    Doc(<<Entry("User", UserSchema)>>,
        <<Entry("/orders",
                <<Entry("parameters", [description |-> "shared"]),
                  Entry("get",
                        [operationId |-> "",
                         responses |-> <<Entry("200", JsonBody([type |-> "string"]))>>]),
                  Entry("post",
                        [operationId |-> "order.create",
                         responses |-> <<Entry("404", JsonBody([type |-> "string"])),
                                         Entry("200", JsonBody(RefTo("User")))>>]),
                  Entry("put",
                        [summary |-> "no id",
                         responses |-> <<Entry("200", JsonBody([type |-> "string"]))>>])>>)>>)

Docs == TableDocs \cup {UserDoc, GhostDoc, ClashDoc, MergeDoc, TreeDoc, OrderDoc}

\* the documents of a session that compiles several documents in turn
SessionDocs == {UserDoc, NodeDoc, LoopDoc}

---------------------------------------------------------------------------
(* generate(): src/index.ts, with the loops of the two generators *)

ConverterOff == [step |-> "off"]

Init ==
    /\ pool \in {{d} : d \in Docs} \cup {SessionDocs}
    /\ openApiDoc \in pool
    /\ pc = "ready"
    /\ runs = 0
    /\ keys = <<>>
    /\ generatedSchemas = <<>>
    /\ processingStack = <<>>
    /\ dependencies = <<>>
    /\ diagnostics = <<>>
    /\ componentFiles = <<>>
    /\ opEntries = <<>>
    /\ operationSchemas = <<>>
    /\ opDependencies = <<>>
    /\ opsLeft = <<>>
    /\ operationFiles = <<>>
    /\ result = <<>>
    /\ history = <<>>
    /\ cv = ConverterOff

\* generate() is called: both generators are constructed and
\* generateComponentSchemas takes Object.keys(this.schemas)
Generate ==
    /\ pc = "ready"
    /\ runs < MaxRuns
    /\ runs' = runs + 1
    /\ generatedSchemas' = NewComponentGenerator.generatedSchemas
    /\ processingStack' = NewComponentGenerator.processingStack
    /\ dependencies' = NewComponentGenerator.dependencies
    /\ opDependencies' = <<>>
    /\ keys' = Keys(SchemasOf(openApiDoc))
    /\ diagnostics' = <<>>
    /\ componentFiles' = <<>>
    /\ opEntries' = <<>>
    /\ operationSchemas' = <<>>
    /\ opsLeft' = <<>>
    /\ operationFiles' = <<>>
    /\ pc' = "components"
    /\ UNCHANGED <<pool, openApiDoc, result, history, cv>>

\* one turn of the forEach of generateComponentSchemas
GenerateComponent ==
    /\ pc = "components"
    /\ keys # <<>>
    /\ \E r \in {generateSchemaFile(SchemasOf(openApiDoc),
                                      [generatedSchemas |-> generatedSchemas,
                                       processingStack |-> processingStack,
                                       dependencies |-> dependencies],
                                      Head(keys))} :
           /\ generatedSchemas' = r.g.generatedSchemas
           /\ processingStack' = r.g.processingStack
           /\ dependencies' = r.g.dependencies
           /\ diagnostics' = diagnostics \o r.log
           /\ componentFiles' =
                 IF IsNull(r.file) THEN componentFiles
                 ELSE Append(componentFiles,
                             [dirName |-> "_components", fileName |-> r.file.fileName,
                              content |-> r.file.content])
    /\ keys' = Tail(keys)
    /\ UNCHANGED <<pool, openApiDoc, pc, runs, opEntries, operationSchemas, opDependencies,
                   opsLeft, operationFiles, result, history, cv>>

\* generateComponentSchemas returns and generateOperationSchemas starts on the
\* entries of the path table
StartOperations ==
    /\ pc = "components"
    /\ keys = <<>>
    /\ opEntries' = FlattenPaths(Entries(PathsOf(openApiDoc)))
    /\ pc' = "operations"
    /\ UNCHANGED <<pool, openApiDoc, runs, keys, generatedSchemas, processingStack,
                   dependencies, diagnostics, componentFiles, operationSchemas,
                   opDependencies, opsLeft, operationFiles, result, history, cv>>

\* one turn of the inner forEach over the methods of a path
CollectOperationStep ==
    /\ pc = "operations"
    /\ opEntries # <<>>
    /\ operationSchemas' = CollectOperation(operationSchemas, Head(opEntries).pathName,
                                            Head(opEntries).method, Head(opEntries).operation)
    /\ opEntries' = Tail(opEntries)
    /\ UNCHANGED <<pool, openApiDoc, pc, runs, keys, generatedSchemas, processingStack,
                   dependencies, diagnostics, componentFiles, opDependencies, opsLeft,
                   operationFiles, result, history, cv>>

\* the path table is exhausted: the forEach over operationSchemas starts
StartEmit ==
    /\ pc = "operations"
    /\ opEntries = <<>>
    /\ opsLeft' = operationSchemas
    /\ pc' = "emit"
    /\ UNCHANGED <<pool, openApiDoc, runs, keys, generatedSchemas, processingStack,
                   dependencies, diagnostics, componentFiles, opEntries, operationSchemas,
                   opDependencies, operationFiles, result, history, cv>>

\* one turn of the forEach over operationSchemas
EmitOperation ==
    /\ pc = "emit"
    /\ opsLeft # <<>>
    /\ \E r \in {EmitOperationFile(SchemasOf(openApiDoc), opDependencies,
                                     Head(opsLeft).value, Head(opsLeft).key)} :
           /\ operationFiles' = Append(operationFiles, r.file)
           /\ opDependencies' = r.deps
    /\ opsLeft' = Tail(opsLeft)
    /\ UNCHANGED <<pool, openApiDoc, pc, runs, keys, generatedSchemas, processingStack,
                   dependencies, diagnostics, componentFiles, opEntries, operationSchemas,
                   result, history, cv>>

\* generate() returning [...operationFiles, ...componentFiles]
ReturnOperationsFirst ==
    /\ pc = "emit"
    /\ opsLeft = <<>>
    /\ result' = operationFiles \o componentFiles
    /\ pc' = "done"
    /\ UNCHANGED <<pool, openApiDoc, runs, keys, generatedSchemas, processingStack,
                   dependencies, diagnostics, componentFiles, opEntries, operationSchemas,
                   opDependencies, opsLeft, operationFiles, history, cv>>

\* generate() returns [...componentFiles, ...operationFiles]
Return ==
    /\ pc = "emit"
    /\ opsLeft = <<>>
    /\ result' = componentFiles \o operationFiles
    /\ pc' = "done"
    /\ UNCHANGED <<pool, openApiDoc, runs, keys, generatedSchemas, processingStack,
                   dependencies, diagnostics, componentFiles, opEntries, operationSchemas,
                   opDependencies, opsLeft, operationFiles, history, cv>>

\* the caller keeps the result and constructs a ZodSchemaGenerator for a
\* document of its pool (the same document again, or another one)
NewZodSchemaGenerator ==
    /\ pc = "done"
    /\ runs < MaxRuns
    /\ history' = Assign(history, openApiDoc, result)
    /\ openApiDoc' \in pool
    /\ pc' = "ready"
    /\ UNCHANGED <<pool, runs, keys, generatedSchemas, processingStack, dependencies,
                   diagnostics, componentFiles, opEntries, operationSchemas, opDependencies,
                   opsLeft, operationFiles, result, cv>>

Next ==
    \/ Generate
    \/ GenerateComponent
    \/ StartOperations
    \/ CollectOperationStep
    \/ StartEmit
    \/ EmitOperation
    \/ Return
    \/ NewZodSchemaGenerator

Spec == Init /\ [][Next]_vars

---------------------------------------------------------------------------
(* Single calls of the converter on bounded schema nodes *)

\* the record with the field f set to one of the values, or without the field
Opt(f, values) == {<<>>} \cup {f :> v : v \in values}

Nums == 0..MaxNum

PropKeys == <<"id", "next", "data", "extra", "more">>

\* the component table the single calls resolve references in
ConvSchemas ==
    <<Entry("User", UserSchema),
      Entry("Shape", LinkTo("Shape")),
      Entry("A", LinkTo("B")),
      Entry("B", LinkTo("A"))>>

StringNodes ==
    {("type" :> "string") @@ e @@ f @@ p @@ lo @@ hi :
        e \in Opt("enum", {<<>>, <<"a", "b">>}),
        f \in Opt("format", {"email", "date-time", "hostname"}),
        p \in Opt("pattern", {"", "^a$"}),
        lo \in Opt("minLength", Nums),
        hi \in Opt("maxLength", Nums)}

NumberNodes ==
    {("type" :> t) @@ lo @@ hi :
        t \in {"number", "integer"}, lo \in Opt("minimum", Nums), hi \in Opt("maximum", Nums)}

LeafNodes ==
    {[type |-> "string"], [type |-> "string", minLength |-> 1, maxLength |-> 1],
     RefTo("User"), RefTo("Shape"), RefTo("Ghost")}

ArrayNodes ==
    {("type" :> "array") @@ i @@ lo @@ hi :
        i \in Opt("items", LeafNodes \cup {[type |-> "array", items |-> [type |-> "string"],
                                            minItems |-> 1]}),
        lo \in Opt("minItems", Nums),
        hi \in Opt("maxItems", Nums)}

\* the property maps with the first n keys of PropKeys, n <= MaxProps
PropertyMaps ==
    UNION {{[i \in 1..n |-> Entry(PropKeys[i], f[i])] : f \in [1..n -> LeafNodes]} :
              n \in 0..MaxProps}

ObjectNodes ==
    {("type" :> "object") @@ ps @@ r @@ ap :
        ps \in {<<>>} \cup {"properties" :> m : m \in PropertyMaps},
        r \in Opt("required", {<<>>, <<"id">>, <<"next">>, <<"id", "next">>}),
        ap \in Opt("additionalProperties",
                   {[bool |-> FALSE], [bool |-> TRUE], [type |-> "string"], RefTo("User")})}

CompositionNodes ==
    {k :> list :
        k \in {"allOf", "oneOf", "anyOf"},
        list \in {<<>>, <<RefTo("User")>>, <<[type |-> "string"], RefTo("Shape")>>}}

OtherNodes ==
    {Null, [type |-> "boolean"], [type |-> "null"], [type |-> "file"],
     [description |-> "untyped"]} \cup LeafNodes

\* objects whose properties hold references one level further down: as the
\* items of a list, as a property of a nested object
NestedNodes ==
    {[type |-> "object",
      properties |-> <<Entry("data", RefTo("User")),
                       Entry("list", [type |-> "array", items |-> RefTo("User")])>>,
      required |-> <<"data">>],
     [type |-> "object",
      properties |-> <<Entry("inner", [type |-> "object",
                                       properties |-> <<Entry("data", RefTo("User"))>>,
                                       required |-> <<"data">>])>>],
     [type |-> "object",
      properties |-> <<Entry("list", [type |-> "array", items |-> RefTo("Ghost")])>>]}

\* references into the two components that refer to each other
CycleNodes ==
    {RefTo("A"),
     [type |-> "array", items |-> RefTo("B")],
     [type |-> "object", properties |-> <<Entry("id", RefTo("A")), Entry("next", RefTo("A"))>>]}

ConvNodes ==
    StringNodes \cup NumberNodes \cup ArrayNodes \cup ObjectNodes \cup CompositionNodes
    \cup OtherNodes \cup NestedNodes \cup CycleNodes

\* the arguments the two generators call the converter with: a response
\* property, a request body, a component
ConvArgs ==
    {[currentPath |-> <<>>, schemaName |-> "", isInline |-> TRUE],
     [currentPath |-> <<>>, schemaName |-> "Request", isInline |-> TRUE],
     [currentPath |-> <<"Shape">>, schemaName |-> "Shape", isInline |-> FALSE]}

InitConv ==
    /\ cv \in {[step |-> "args", schemas |-> ConvSchemas, property |-> n,
                currentPath |-> a.currentPath, schemaName |-> a.schemaName,
                isInline |-> a.isInline, out |-> <<>>, deps |-> <<>>, refs |-> <<>>] :
                  n \in ConvNodes, a \in ConvArgs}
    /\ pool = {}
    /\ openApiDoc = Doc(<<>>, <<>>)
    /\ pc = "off"
    /\ runs = 0
    /\ keys = <<>>
    /\ generatedSchemas = <<>>
    /\ processingStack = <<>>
    /\ dependencies = <<>>
    /\ diagnostics = <<>>
    /\ componentFiles = <<>>
    /\ opEntries = <<>>
    /\ operationSchemas = <<>>
    /\ opDependencies = <<>>
    /\ opsLeft = <<>>
    /\ operationFiles = <<>>
    /\ result = <<>>
    /\ history = <<>>

RunUnchanged ==
    UNCHANGED <<pool, openApiDoc, pc, runs, keys, generatedSchemas, processingStack,
                dependencies, diagnostics, componentFiles, opEntries, operationSchemas,
                opDependencies, opsLeft, operationFiles, result, history>>

\* convertType(property, currentPath, schemaName, isInline) on an empty
\* dependency map
ConvertTypeCall ==
    /\ cv.step = "args"
    /\ \E r \in {convertType(cv.schemas, <<>>, cv.property, cv.currentPath, cv.schemaName,
                             cv.isInline)} :
           cv' = [cv EXCEPT !.step = "converted", !.out = r.out, !.deps = r.deps]
    /\ RunUnchanged

\* convertResponseSchema(schema, componentRefs) on an empty set of references
ConvertResponseCall ==
    /\ cv.step = "args"
    /\ cv.currentPath = <<>>
    /\ cv.schemaName = ""
    /\ \E r \in {convertResponseSchema(cv.schemas, <<>>, cv.property, <<>>)} :
           cv' = [cv EXCEPT !.step = "response", !.out = r.out, !.deps = r.deps,
                            !.refs = r.refs]
    /\ RunUnchanged

NextConv ==
    \/ ConvertTypeCall
    \/ ConvertResponseCall

SpecConv == InitConv /\ [][NextConv]_vars

---------------------------------------------------------------------------
(* The recursion of convertType, one call at a time *)

MaxExpansions == 8

\* a nested call that starts a path stack of its own
ExpandedPathDropped(currentPath, refName) == <<refName>>

\* the path stack of the nested call of line 36: [...currentPath, refName]
ExpandedPath(currentPath, refName) == Append(currentPath, refName)

\* a pending call of convertType: its four arguments, and the number of
\* inline expansions it is nested in
Frame(node, path, owner, inline, depth) ==
    [node |-> node, path |-> path, owner |-> owner, inline |-> inline, depth |-> depth]

\* the nodes a call on a node without $ref passes to its nested calls, in the
\* order of the calls: the children of the first composition present, the
\* items of an array, the property values of an object with a property map
\* followed by its additionalProperties schema
NestedCalls(node) ==
    IF Has(node, "allOf") THEN node.allOf
    ELSE IF Has(node, "oneOf") THEN node.oneOf
    ELSE IF Has(node, "anyOf") THEN node.anyOf
    ELSE IF Has(node, "type") /\ node.type = "array" THEN <<Get(node, "items")>>
    ELSE IF Has(node, "type") /\ node.type = "object" /\ Has(node, "properties")
    THEN [i \in 1..Len(Entries(node.properties)) |-> Entries(node.properties)[i].value]
         \o (IF Has(node, "additionalProperties") /\ ~Has(node.additionalProperties, "bool")
             THEN <<node.additionalProperties>> ELSE <<>>)
    ELSE <<>>

IsReference(node) == ~IsNull(node) /\ Has(node, "ref") /\ node.ref # ""

InitWalk ==
    /\ cv \in {[step |-> "walk", schemas |-> ConvSchemas, property |-> n,
                currentPath |-> a.currentPath, schemaName |-> a.schemaName,
                isInline |-> a.isInline,
                work |-> <<Frame(n, a.currentPath, a.schemaName, a.isInline, 0)>>,
                deps |-> <<>>, expansions |-> <<>>, lazies |-> <<>>] :
                  n \in ConvNodes, a \in ConvArgs}
    /\ pool = {}
    /\ openApiDoc = Doc(<<>>, <<>>)
    /\ pc = "off"
    /\ runs = 0
    /\ keys = <<>>
    /\ generatedSchemas = <<>>
    /\ processingStack = <<>>
    /\ dependencies = <<>>
    /\ diagnostics = <<>>
    /\ componentFiles = <<>>
    /\ opEntries = <<>>
    /\ operationSchemas = <<>>
    /\ opDependencies = <<>>
    /\ opsLeft = <<>>
    /\ operationFiles = <<>>
    /\ result = <<>>
    /\ history = <<>>

\* the call on top of the stack of pending calls
Top == Head(cv.work)

Walking == cv.step = "walk" /\ cv.work # <<>>

\* the dependency map after lines 22-27 of the call on top
Tracked == TrackDependency(cv.deps, Top.owner, LastSegment(Top.node.ref), Top.inline)

\* a call on a reference whose name is on the path stack returns the deferred
\* reference, lines 30-32
WalkLazy ==
    /\ Walking
    /\ IsReference(Top.node)
    /\ InCycle(Top.path, LastSegment(Top.node.ref))
    /\ cv' = [cv EXCEPT !.work = Tail(cv.work),
                        !.deps = Tracked,
                        !.lazies = Append(cv.lazies, [name |-> LastSegment(Top.node.ref),
                                                      path |-> Top.path])]
    /\ RunUnchanged

\* a call on a reference in inline mode calls convertType on the component,
\* lines 35-37
WalkExpand ==
    /\ Walking
    /\ IsReference(Top.node)
    /\ ~InCycle(Top.path, LastSegment(Top.node.ref))
    /\ Top.inline
    /\ ~IsNull(Lookup(cv.schemas, LastSegment(Top.node.ref)))
    /\ Len(cv.expansions) < MaxExpansions
    /\ cv' = [cv EXCEPT !.work = <<Frame(Lookup(cv.schemas, LastSegment(Top.node.ref)),
                                         ExpandedPath(Top.path, LastSegment(Top.node.ref)),
                                         LastSegment(Top.node.ref), TRUE, Top.depth + 1)>>
                                 \o Tail(cv.work),
                        !.deps = Tracked,
                        !.expansions = Append(cv.expansions,
                                              [name |-> LastSegment(Top.node.ref),
                                               path |-> Top.path, depth |-> Top.depth])]
    /\ RunUnchanged

\* a call on any other reference returns the name, line 39
WalkName ==
    /\ Walking
    /\ IsReference(Top.node)
    /\ ~InCycle(Top.path, LastSegment(Top.node.ref))
    /\ ~(Top.inline /\ ~IsNull(Lookup(cv.schemas, LastSegment(Top.node.ref))))
    /\ cv' = [cv EXCEPT !.work = Tail(cv.work), !.deps = Tracked]
    /\ RunUnchanged

\* a call on a node without $ref makes its nested calls with its own
\* arguments, lines 42-81; a call without nested calls returns
WalkNode ==
    /\ Walking
    /\ ~IsReference(Top.node)
    /\ cv' = [cv EXCEPT !.work =
                 (IF IsNull(Top.node) THEN <<>>
                  ELSE [i \in 1..Len(NestedCalls(Top.node)) |->
                           Frame(NestedCalls(Top.node)[i], Top.path, Top.owner, Top.inline,
                                 Top.depth)])
                 \o Tail(cv.work)]
    /\ RunUnchanged

NextWalk ==
    \/ WalkLazy
    \/ WalkExpand
    \/ WalkName
    \/ WalkNode

\* the calls are synchronous: a pending call is always made
SpecWalk == InitWalk /\ [][NextWalk]_vars /\ WF_vars(NextWalk)

---------------------------------------------------------------------------
(* Reading emitted text *)

\* the tokens that open a bracket and the tokens that close one
Opens ==
    {"z.lazy(() => ", "z.intersection(", "z.union([", "z.enum([", ".regex(/", ".min(",
     ".max(", "z.array(", "z.object({\n", ".catchall("}

Closes == {")", "])", "/)", "\n})"}

RECURSIVE DepthAfter(_, _)
\* the bracket depth after the first i tokens
DepthAfter(ts, i) ==
    IF i = 0 THEN 0
    ELSE DepthAfter(ts, i - 1)
         + (IF ts[i] \in Opens THEN 1 ELSE IF ts[i] \in Closes THEN -1 ELSE 0)

\* token i is at the top level of the expression
IsTop(ts, i) == DepthAfter(ts, i - 1) = 0

\* how often tok occurs at the top level
TopCount(ts, tok) == Cardinality({i \in 1..Len(ts) : ts[i] = tok /\ IsTop(ts, i)})

\* the token that follows the top-level occurrence of tok
TopArg(ts, tok) == ts[(CHOOSE i \in 1..Len(ts) : ts[i] = tok /\ IsTop(ts, i)) + 1]

\* the end of the first top-level term of the expression
FirstTermEnd(ts) == CHOOSE i \in 1..Len(ts) : DepthAfter(ts, i) = 0 /\ \A j \in 1..(i - 1) : DepthAfter(ts, j) # 0

\* what follows the first top-level term: the modifiers chained to it
Modifiers(ts) == SubSeq(ts, FirstTermEnd(ts) + 1, Len(ts))

\* the position of the line of property key in an object expression
PropStart(ts, key) ==
    CHOOSE i \in 1..Len(ts) :
        /\ DepthAfter(ts, i - 1) = 1
        /\ ts[i] = "  "
        /\ i + 2 <= Len(ts)
        /\ ts[i + 1] = key
        /\ ts[i + 2] = ": "
        /\ ts[i - 1] \in {"z.object({\n", ",\n"}

HasProp(ts, key) ==
    \E i \in 2..Len(ts) :
        /\ DepthAfter(ts, i - 1) = 1
        /\ ts[i] = "  "
        /\ i + 2 <= Len(ts)
        /\ ts[i + 1] = key
        /\ ts[i + 2] = ": "
        /\ ts[i - 1] \in {"z.object({\n", ",\n"}

\* the position that ends the line of property key: the next separator or
\* the end of the object
PropEnd(ts, key) ==
    CHOOSE e \in (PropStart(ts, key) + 3)..Len(ts) :
        /\ DepthAfter(ts, e - 1) = 1
        /\ ts[e] \in {",\n", "\n})"}
        /\ \A j \in (PropStart(ts, key) + 3)..(e - 1) :
              ~(DepthAfter(ts, j - 1) = 1 /\ ts[j] \in {",\n", "\n})"})

\* the text of property key after `key: `, with its optional marker
PropText(ts, key) == SubSeq(ts, PropStart(ts, key) + 3, PropEnd(ts, key) - 1)

IsOptional(ts, key) ==
    Len(PropText(ts, key)) > 0 /\ PropText(ts, key)[Len(PropText(ts, key))] = ".optional()"

\* the validator expression of property key, without the optional marker
PropExpr(ts, key) ==
    IF IsOptional(ts, key)
    THEN SubSeq(PropText(ts, key), 1, Len(PropText(ts, key)) - 1)
    ELSE PropText(ts, key)

\* the number of property lines of an object expression
PropCount(ts) ==
    Cardinality({i \in 2..Len(ts) :
                    DepthAfter(ts, i - 1) = 1 /\ ts[i] = "  "
                    /\ ts[i - 1] \in {"z.object({\n", ",\n"}})

\* the position in a file's content where the line `<prefix>...;` starts
HasDecl(content, prefix) ==
    \E i \in 1..Len(content) :
        /\ i + Len(prefix) - 1 <= Len(content)
        /\ SubSeq(content, i, i + Len(prefix) - 1) = prefix
        /\ (i = 1 \/ content[i - 1] = "\n")

DeclStart(content, prefix) ==
    CHOOSE i \in 1..Len(content) :
        /\ i + Len(prefix) - 1 <= Len(content)
        /\ SubSeq(content, i, i + Len(prefix) - 1) = prefix
        /\ (i = 1 \/ content[i - 1] = "\n")

\* the expression of the declaration `<prefix><expression>;`
DeclExpr(content, prefix) ==
    LET from == DeclStart(content, prefix) + Len(prefix)
        to == CHOOSE e \in from..Len(content) :
                  content[e] = ";" /\ \A j \in from..(e - 1) : content[j] # ";"
    IN  SubSeq(content, from, to - 1)

\* the lines of a file's content
HasLine(content, line) ==
    \E i \in 1..Len(content) :
        /\ i + Len(line) - 1 <= Len(content)
        /\ SubSeq(content, i, i + Len(line) - 1) = line
        /\ (i = 1 \/ content[i - 1] = "\n")
        /\ (i + Len(line) - 1 = Len(content) \/ content[i + Len(line)] = "\n")

Lazy(name) == <<"z.lazy(() => ", name, ")">>

---------------------------------------------------------------------------
(* Properties of the component artifacts *)

\* generateComponentSchemas is running or has run on the current document
InRun == pc \in {"components", "operations", "emit", "done"}

ComponentsDone == pc \in {"operations", "emit", "done"}

\* the component has a schema with a property map
HasProperties(schemas, name) ==
    HasSchema(schemas, name) /\ Has(Lookup(schemas, name), "properties")

\* the keys of the direct properties of component `from` that are references
\* to the name `to`
RefKeys(schemas, from, to) ==
    IF HasProperties(schemas, from)
    THEN LET ps == Lookup(schemas, from).properties
         IN  {ps[i].key : i \in {j \in 1..Len(ps) :
                                    /\ Has(ps[j].value, "ref")
                                    /\ LastSegment(ps[j].value.ref) = to}}
    ELSE {}

\* the validator expression declared in the cached file of a component
ComponentExpr(name) ==
    DeclExpr(Lookup(generatedSchemas, name).content, <<"export const ", name, " = ">>)

\* the reference from -> to under key is emitted as z.lazy(() => to)
EmittedLazy(from, key, to) == PropExpr(ComponentExpr(from), key) = Lazy(to)

ComponentNames == {Keys(SchemasOf(openApiDoc))[i] : i \in 1..Len(SchemasOf(openApiDoc))}

\* C1: a component that refers to itself in a direct property is converted
\* (its file exists once generateComponentSchemas has returned), and the
\* property is emitted as z.lazy(() => Name): no bare identifier, no expansion.
C1_SelfReferenceIsLazy ==
    InRun =>
        \A n \in ComponentNames :
            RefKeys(SchemasOf(openApiDoc), n, n) # {} =>
                /\ ComponentsDone => HasKey(generatedSchemas, n)
                /\ HasKey(generatedSchemas, n) =>
                      \A k \in RefKeys(SchemasOf(openApiDoc), n, n) : EmittedLazy(n, k, n)

C1_Witness ==
    /\ pc = "done"
    /\ \E n \in ComponentNames :
          /\ RefKeys(SchemasOf(openApiDoc), n, n) # {}
          /\ HasKey(generatedSchemas, n)
          /\ \A k \in RefKeys(SchemasOf(openApiDoc), n, n) : EmittedLazy(n, k, n)

\* the sequences of distinct component names of length k
Chains(k) ==
    {c \in [1..k -> ComponentNames] : \A i, j \in 1..k : i # j => c[i] # c[j]}

\* c is a cycle of references: each name refers to the next, the last to the first
IsCycle(c) ==
    \A i \in 1..Len(c) :
        RefKeys(SchemasOf(openApiDoc), c[i], c[(i % Len(c)) + 1]) # {}

\* C2: on every cycle of references among the named components, of any
\* length, at least one reference is emitted as a deferred z.lazy reference.
C2_EveryCycleHasLazyReference ==
    pc = "done" =>
        \A k \in 1..Cardinality(ComponentNames) :
            \A c \in Chains(k) :
                IsCycle(c) =>
                    \E i \in 1..k :
                        \E key \in RefKeys(SchemasOf(openApiDoc), c[i], c[(i % k) + 1]) :
                            EmittedLazy(c[i], key, c[(i % k) + 1])

\* the files generateComponentSchemas returned that are named after the component
FilesOf(name) == {i \in 1..Len(componentFiles) : componentFiles[i].fileName = name \o ".ts"}

\* C3: generateComponentSchemas returns exactly one artifact for each name
\* that has a schema node and none for any other name, also when components
\* refer to each other.
C3_OneArtifactPerComponent ==
    ComponentsDone =>
        /\ \A n \in ComponentNames :
              Cardinality(FilesOf(n)) = IF ~IsNull(Lookup(SchemasOf(openApiDoc), n)) THEN 1 ELSE 0
        /\ \A i \in 1..Len(componentFiles) :
              \E n \in ComponentNames : i \in FilesOf(n)

C3_Witness ==
    /\ ComponentsDone
    /\ Len(componentFiles) = 2
    /\ \E a, b \in ComponentNames :
          /\ a # b
          /\ RefKeys(SchemasOf(openApiDoc), a, b) # {}
          /\ RefKeys(SchemasOf(openApiDoc), b, a) # {}

\* the results of earlier runs and of this one agree on the current document
SameAsBefore == HasKey(history, openApiDoc) => Lookup(history, openApiDoc) = result

\* C4: a run of generate on a document returns the same sequence of artifacts
\* (group names, file names, content) as every earlier run on that document,
\* whatever documents were compiled in between.
C4_Deterministic == pc = "done" => SameAsBefore

C4_Witness ==
    /\ pc = "done"
    /\ Len(history) >= 2
    /\ HasKey(history, openApiDoc)
    /\ Len(result) >= 2
    /\ Lookup(history, openApiDoc) = result

---------------------------------------------------------------------------
(* Properties of single conversions *)

\* the node is an object node that the converter dispatches on its type
IsObjectNode(n) ==
    /\ ~IsNull(n)
    /\ ~Has(n, "ref") /\ ~Has(n, "allOf") /\ ~Has(n, "oneOf") /\ ~Has(n, "anyOf")
    /\ Has(n, "type") /\ n.type = "object"

IsTypedNode(n, types) ==
    /\ ~IsNull(n)
    /\ ~Has(n, "ref") /\ ~Has(n, "allOf") /\ ~Has(n, "oneOf") /\ ~Has(n, "anyOf")
    /\ Has(n, "type") /\ n.type \in types

\* the name is listed in the node's required set
Listed(n, key) == Has(n, "required") /\ \E i \in 1..Len(n.required) : n.required[i] = key

\* C5: in an emitted object validator, of the converter and of the response
\* assembler, every declared property has its line, a property listed in
\* required has no .optional() suffix and a property not listed (or without a
\* required list) has it.
C5_OptionalIffNotRequired ==
    (cv.step \in {"converted", "response"} /\ IsObjectNode(cv.property)
        /\ Has(cv.property, "properties")) =>
        /\ PropCount(cv.out) = Len(cv.property.properties)
        /\ \A i \in 1..Len(cv.property.properties) :
              /\ HasProp(cv.out, cv.property.properties[i].key)
              /\ IsOptional(cv.out, cv.property.properties[i].key)
                    <=> ~Listed(cv.property, cv.property.properties[i].key)

C5_Witness ==
    /\ cv.step = "response"
    /\ IsObjectNode(cv.property)
    /\ Has(cv.property, "properties")
    /\ Len(cv.property.properties) = 2
    /\ Listed(cv.property, "id") /\ ~Listed(cv.property, "next")
    /\ ~IsOptional(cv.out, "id") /\ IsOptional(cv.out, "next")

\* the tokens of the format, pattern and length constraints of a string
StringConstraintTokens ==
    {".datetime()", ".date()", ".email()", ".uuid()", ".url()", ".regex(/", ".min(", ".max("}

\* C6: a string node with an enum is emitted as the enum validator alone:
\* nothing is chained to it and no format, pattern or length token occurs.
C6_EnumOverridesConstraints ==
    (cv.step = "converted" /\ IsTypedNode(cv.property, {"string"}) /\ Has(cv.property, "enum")) =>
        /\ cv.out[1] = "z.enum(["
        /\ Modifiers(cv.out) = <<>>
        /\ \A i \in 1..Len(cv.out) : cv.out[i] \notin StringConstraintTokens

C6_Witness ==
    /\ cv.step = "converted"
    /\ IsTypedNode(cv.property, {"string"})
    /\ Has(cv.property, "enum") /\ Len(cv.property.enum) = 2
    /\ Has(cv.property, "format") /\ Has(cv.property, "pattern")
    /\ Has(cv.property, "minLength") /\ Has(cv.property, "maxLength")
    /\ cv.out = <<"z.enum([", "\"", "a", "\"", ", ", "\"", "b", "\"", "])">>

\* the constraint token occurs once at the top level, with its value, when
\* the constraint is present, and not at all when it is absent
RoundTrips(out, present, tok, value) ==
    /\ TopCount(out, tok) = IF present THEN 1 ELSE 0
    /\ present => TopArg(out, tok) = value

BoundRoundTrips(n, out, field, tok) ==
    RoundTrips(out, Has(n, field), tok, IF Has(n, field) THEN ToString(n[field]) ELSE "")

\* the numeric constraints of strings, numbers, integers and arrays round-trip
BoundsRoundTrip(n, out) ==
    /\ (IsTypedNode(n, {"string"}) /\ ~Has(n, "enum")) =>
          /\ BoundRoundTrips(n, out, "minLength", ".min(")
          /\ BoundRoundTrips(n, out, "maxLength", ".max(")
    /\ IsTypedNode(n, {"number", "integer"}) =>
          /\ BoundRoundTrips(n, out, "minimum", ".min(")
          /\ BoundRoundTrips(n, out, "maximum", ".max(")
    /\ IsTypedNode(n, {"array"}) =>
          /\ BoundRoundTrips(n, out, "minItems", ".min(")
          /\ BoundRoundTrips(n, out, "maxItems", ".max(")

\* C7 as stated: every constraint field that is present, the empty pattern
\* included, yields its token, and an absent field yields none.
C7_EveryPresentConstraintEmitted ==
    cv.step = "converted" =>
        /\ BoundsRoundTrip(cv.property, cv.out)
        /\ (IsTypedNode(cv.property, {"string"}) /\ ~Has(cv.property, "enum")) =>
              TopCount(cv.out, ".regex(/") = IF Has(cv.property, "pattern") THEN 1 ELSE 0

\* C7 amended: the bounds round-trip as stated (the value 0 included); the
\* pattern token occurs exactly when the pattern is present and not empty.
C7_NonEmptyPatternEmitted ==
    cv.step = "converted" =>
        /\ BoundsRoundTrip(cv.property, cv.out)
        /\ (IsTypedNode(cv.property, {"string"}) /\ ~Has(cv.property, "enum")) =>
              RoundTrips(cv.out, Has(cv.property, "pattern") /\ cv.property.pattern # "",
                         ".regex(/",
                         IF Has(cv.property, "pattern") THEN cv.property.pattern ELSE "")

C7_Witness ==
    /\ cv.step = "converted"
    /\ IsTypedNode(cv.property, {"string"})
    /\ ~Has(cv.property, "enum") /\ ~Has(cv.property, "format")
    /\ Has(cv.property, "pattern") /\ cv.property.pattern = ""
    /\ Has(cv.property, "minLength") /\ cv.property.minLength = 0
    /\ ~Has(cv.property, "maxLength")
    /\ cv.out = <<"z.string()", ".min(", "0", ")">>

\* the modifier the additional-properties policy of the node asks for
PolicyModifier(n) ==
    IF ~Has(n, "additionalProperties") THEN <<>>
    ELSE IF Has(n.additionalProperties, "bool")
    THEN (IF n.additionalProperties.bool THEN <<".catchall(z.unknown())">> ELSE <<".strict()">>)
    ELSE <<".catchall(">>
         \o convertType(cv.schemas, <<>>, n.additionalProperties, cv.currentPath,
                        cv.schemaName, cv.isInline).out
         \o <<")">>

\* C8 as stated: every object node the converter converts carries the
\* modifier of its additional-properties policy.
C8_PolicyOnEveryObject ==
    (cv.step = "converted" /\ IsObjectNode(cv.property)) =>
        Modifiers(cv.out) = PolicyModifier(cv.property)

---------------------------------------------------------------------------
(* The end-to-end example *)

\* C9: for the document with the component User = {id: string (required),
\* email: string with format email} and the operation POST /users
\* (user.create, request = reference to User, response 201 = {data:
\* reference to User}), generate returns two artifacts: the component User
\* with id a string without optional suffix and email an email-validated
\* optional string, and the artifact of user.create whose Request is the
\* alias User and whose Response201 is an inline object with the single
\* property data, the imported identifier User.
C9_UserExample ==
    (pc = "done" /\ openApiDoc = UserDoc) =>
        /\ Len(result) = 2
        /\ result[1].dirName = "_components"
        /\ result[1].fileName = "User.ts"
        /\ LET user == DeclExpr(result[1].content, <<"export const ", "User", " = ">>)
           IN  /\ PropCount(user) = 2
               /\ PropText(user, "id") = <<"z.string()">>
               /\ PropText(user, "email") = <<"z.string()", ".email()", ".optional()">>
        /\ result[2].dirName = "user.create"
        /\ result[2].fileName = "schema.ts"
        /\ DeclExpr(result[2].content, <<"export const Request = ">>) = <<"User">>
        /\ LET response == DeclExpr(result[2].content, <<"export const Response", "201", " = ">>)
           IN  /\ response[1] = "z.object({\n"
               /\ Modifiers(response) = <<>>
               /\ PropCount(response) = 1
               /\ PropExpr(response, "data") = <<"User">>
        /\ HasLine(result[2].content,
                   <<"import { ", "User", " } from '../_components/", "User", ".js';">>)

C9_Witness ==
    /\ pc = "done"
    /\ openApiDoc = UserDoc
    /\ Len(result) = 2
    /\ HasDecl(result[2].content, <<"export const Response", "201", " = ">>)
    /\ HasDecl(result[2].content, <<"export const Request = ">>)

---------------------------------------------------------------------------
(* Properties of the artifacts of a run *)

\* the names a document of the model may refer to
ShapeNames ==
    {NamePool[i] : i \in 1..Len(NamePool)}
    \cup {"Ghost", "User", "Known", "Plain", "schema", "Node", "Leaf", "Tree", "Other",
          "Dict", "Bag"}

\* the shape is absent from the component table of the current document
Absent(name) == IsNull(Lookup(SchemasOf(openApiDoc), name))

\* the node is a reference whose last segment is the name
RefersTo(node, name) ==
    ~IsNull(node) /\ Has(node, "ref") /\ LastSegment(node.ref) = name

\* the j-th operation record of the run and its artifact in the result
OpRecord(j) == operationSchemas[j].value

OpFile(j) == result[Len(result) - Len(operationSchemas) + j]

RequestDecl == <<"export const Request = ">>

ResponseDecl(code) == <<"export const Response", code, " = ">>

\* in the expression emitted for the node, every reference to the name, the
\* node itself, its items or one of its direct properties, is the bare name
EmitsBare(expr, node, name) ==
    /\ RefersTo(node, name) => expr = <<name>>
    /\ (~Has(node, "ref") /\ Has(node, "items") /\ RefersTo(node.items, name)) =>
          expr = <<"z.array(", name, ")">>
    /\ (~Has(node, "ref") /\ Has(node, "properties")) =>
          \A i \in 1..Len(node.properties) :
              RefersTo(node.properties[i].value, name) =>
                  PropExpr(expr, node.properties[i].key) = <<name>>

\* some line of the content imports the name
Imports(content, name) ==
    \E i \in 1..(Len(content) - 1) : content[i] = "import { " /\ content[i + 1] = name

\* C11: for a name that is absent from the component table, a run returns no
\* component artifact of that name and no artifact with an import line for
\* it; every reference to it (in a component, in a request body, in a
\* response body) is emitted as the bare name; and the run returns one
\* artifact per component with a schema and one per operation record.
C11_MissingShapeIsBareName ==
    pc = "done" =>
        /\ \A g \in ShapeNames :
              Absent(g) =>
                  /\ \A i \in 1..Len(result) :
                        /\ ~(result[i].dirName = "_components" /\ result[i].fileName = g \o ".ts")
                        /\ ~Imports(result[i].content, g)
                  /\ \A n \in ComponentNames :
                        HasKey(generatedSchemas, n) =>
                            EmitsBare(ComponentExpr(n), Lookup(SchemasOf(openApiDoc), n), g)
                  /\ \A j \in 1..Len(operationSchemas) :
                        /\ ~IsNull(OpRecord(j).request) =>
                              EmitsBare(DeclExpr(OpFile(j).content, RequestDecl),
                                        OpRecord(j).request, g)
                        /\ \A k \in 1..Len(OpRecord(j).responses) :
                              EmitsBare(DeclExpr(OpFile(j).content,
                                                 ResponseDecl(OpRecord(j).responses[k].key)),
                                        OpRecord(j).responses[k].value.schema, g)
        /\ Len(result) = Cardinality({n \in ComponentNames : ~Absent(n)}) + Len(operationSchemas)
        /\ \A n \in ComponentNames : ~Absent(n) => HasKey(generatedSchemas, n)
        /\ \A j \in 1..Len(operationSchemas) :
              OpFile(j).dirName = operationSchemas[j].key

C11_Witness ==
    /\ pc = "done"
    /\ openApiDoc = GhostDoc
    /\ Absent("Ghost")
    /\ Len(result) = 4
    /\ ComponentExpr("Known") = <<"z.object({\n", "  ", "next", ": ", "Ghost", "\n})">>
    /\ DeclExpr(result[4].content, RequestDecl) = <<"Ghost">>
    /\ ~Imports(result[4].content, "Ghost")

---------------------------------------------------------------------------
(* Totality of the converter *)

\* the node carries none of $ref, allOf, oneOf, anyOf
IsPlain(n) ==
    ~IsNull(n) /\ ~Has(n, "ref") /\ ~Has(n, "allOf") /\ ~Has(n, "oneOf") /\ ~Has(n, "anyOf")

\* C12: convertType returns a validator expression for every node, never
\* the undefined value: z.unknown() for an absent node and for a missing or
\* unrecognized type, z.array(z.unknown()) for an array without items,
\* z.record(z.unknown()) for an object without a property map, and an
\* expression for a composition with an empty or one-element child list.
C12_ConverterIsTotal ==
    cv.step = "converted" =>
        /\ cv.out # Undefined
        /\ Len(cv.out) > 0
        /\ IsNull(cv.property) => cv.out = <<"z.unknown()">>
        /\ (IsPlain(cv.property) /\ ~Has(cv.property, "type")) => cv.out = <<"z.unknown()">>
        /\ IsTypedNode(cv.property, {"file"}) => cv.out = <<"z.unknown()">>
        /\ (IsTypedNode(cv.property, {"array"}) /\ ~Has(cv.property, "items")) =>
              SubSeq(cv.out, 1, 3) = <<"z.array(", "z.unknown()", ")">>
        /\ (IsObjectNode(cv.property) /\ ~Has(cv.property, "properties")) =>
              cv.out = <<"z.record(z.unknown())">>

---------------------------------------------------------------------------
(* Addressing the artifacts *)

\* the two-part key of the i-th artifact of the result
KeyOf(i) == <<result[i].dirName, result[i].fileName>>

\* C13: in the result of a run, no operation artifact has the group name of
\* the component artifacts, and the keys (group name, file name) of the
\* artifacts are pairwise distinct.
C13_KeysAddressArtifacts ==
    pc = "done" =>
        /\ \A i \in 1..Len(componentFiles) :
              \A j \in (Len(componentFiles) + 1)..Len(result) :
                  result[i].dirName # result[j].dirName
        /\ \A j \in (Len(componentFiles) + 1)..Len(result) :
              result[j].dirName # "_components"
        /\ \A i \in 1..Len(result) :
              \A j \in 1..Len(result) : i # j => KeyOf(i) # KeyOf(j)

---------------------------------------------------------------------------
(* Merging the entries of one operationId *)

\* what a record of operationSchemas holds is still in the map after the step
Kept(id, old) ==
    /\ HasKey(operationSchemas', id)
    /\ ~IsNull(old.request) => Lookup(operationSchemas', id).request = old.request
    /\ \A k \in 1..Len(old.responses) :
          Lookup(Lookup(operationSchemas', id).responses, old.responses[k].key)
              = old.responses[k].value

\* C14: while the path table is collected, an entry never replaces what a
\* record has accumulated: the request body of a record, once set, and the
\* response recorded for a status code stay what they are; a step only adds.
C14_LaterEntriesOnlyAdd ==
    [][(pc = "operations" /\ pc' = "operations") =>
          \A j \in 1..Len(operationSchemas) :
              Kept(operationSchemas[j].key, operationSchemas[j].value)]_vars

---------------------------------------------------------------------------
(* Imports of the operation artifacts *)

\* the name occurs in the expression as an identifier: as a token that is
\* not the key of a property line
IdentIn(expr, name) ==
    \E i \in 1..Len(expr) :
        /\ expr[i] = name
        /\ ~(i > 1 /\ i < Len(expr) /\ expr[i - 1] = "  " /\ expr[i + 1] = ": ")

\* the number of import lines for the name
ImportCount(content, name) ==
    Cardinality({i \in 1..(Len(content) - 1) :
                    content[i] = "import { " /\ content[i + 1] = name})

\* the name is an identifier of the request validator or of a response
\* validator of the j-th operation artifact
UsedByOperation(j, name) ==
    \/ /\ HasDecl(OpFile(j).content, RequestDecl)
       /\ IdentIn(DeclExpr(OpFile(j).content, RequestDecl), name)
    \/ \E k \in 1..Len(OpRecord(j).responses) :
          IdentIn(DeclExpr(OpFile(j).content, ResponseDecl(OpRecord(j).responses[k].key)),
                  name)

\* C15: in every operation artifact, a component of the table that occurs as
\* an identifier in the request validator or in a response validator, bare
\* or under z.lazy, has exactly one import line, and no name has two.
C15_UsedComponentsAreImported ==
    pc = "done" =>
        \A j \in 1..Len(operationSchemas) :
            \A n \in ShapeNames :
                /\ ImportCount(OpFile(j).content, n) <= 1
                /\ (~Absent(n) /\ UsedByOperation(j, n)) =>
                      ImportCount(OpFile(j).content, n) = 1

---------------------------------------------------------------------------
(* Response validators *)

\* the call converted an inline object with a property map as a response body
IsResponseObject ==
    cv.step = "response" /\ IsObjectNode(cv.property) /\ Has(cv.property, "properties")

\* the expression emitted for a property value keeps every reference it holds
\* (the value itself, its items, a property of it) as the name referred to
KeepsReferences(expr, value) ==
    /\ (~IsNull(value) /\ Has(value, "ref")) => expr = <<LastSegment(value.ref)>>
    /\ (IsTypedNode(value, {"array"}) /\ Has(value, "items") /\ ~IsNull(value.items)
            /\ Has(value.items, "ref")) =>
          SubSeq(expr, 1, 3) = <<"z.array(", LastSegment(value.items.ref), ")">>
    /\ (IsObjectNode(value) /\ Has(value, "properties")) =>
          \A i \in 1..Len(value.properties) :
              Has(value.properties[i].value, "ref") =>
                  PropExpr(expr, value.properties[i].key)
                      = <<LastSegment(value.properties[i].value.ref)>>

\* C16: in the validator of a response body that is an inline object, every
\* component reference at or below its direct properties (a direct property,
\* the items of a list property, a property of a nested object) is emitted as
\* the name of the component and not as the component's expanded shape.
C16_ResponseKeepsReferences ==
    IsResponseObject =>
        \A i \in 1..Len(cv.property.properties) :
            KeepsReferences(PropExpr(cv.out, cv.property.properties[i].key),
                            cv.property.properties[i].value)

\* what the converter emits for the node of the call in inline mode
InlineOut == convertType(cv.schemas, <<>>, cv.property, <<>>, "", TRUE).out

\* C17: the validator of a response body that is an inline object with a
\* property map is the expression the converter emits for the node in inline
\* mode, with each direct property that is a component reference replaced by
\* the component's name: the same property lines otherwise, the same
\* optional markers and the same additional-properties modifier.
C17_ResponseIsInlineConversion ==
    IsResponseObject =>
        /\ PropCount(cv.out) = PropCount(InlineOut)
        /\ \A i \in 1..Len(cv.property.properties) :
              /\ IsOptional(cv.out, cv.property.properties[i].key)
                    <=> IsOptional(InlineOut, cv.property.properties[i].key)
              /\ PropExpr(cv.out, cv.property.properties[i].key) =
                    IF Has(cv.property.properties[i].value, "ref")
                    THEN <<LastSegment(cv.property.properties[i].value.ref)>>
                    ELSE PropExpr(InlineOut, cv.property.properties[i].key)
        /\ Modifiers(cv.out) = Modifiers(InlineOut)

---------------------------------------------------------------------------
(* Request validators *)

RequestTypeLine == <<"export type RequestType = z.infer<typeof Request>;">>

\* the request body is a direct reference to a named component
IsDirectReference(request) ==
    Has(request, "ref") /\ request = RefTo(LastSegment(request.ref))

\* what the converter emits for the request body in inline mode
InlineRequest(request) ==
    convertType(SchemasOf(openApiDoc), <<>>, request, <<>>, "Request", TRUE).out

\* C18: the artifact of an operation without a request body declares no
\* Request validator and no Request type alias; with a request body that is a
\* direct reference to a component, Request is the alias of that name; with
\* any other request body, Request is the conversion of the body in inline
\* mode; in both cases the type alias follows.
C18_RequestAliasOrInline ==
    pc = "done" =>
        \A j \in 1..Len(operationSchemas) :
            IF IsNull(OpRecord(j).request)
            THEN /\ ~HasDecl(OpFile(j).content, RequestDecl)
                 /\ ~HasLine(OpFile(j).content, RequestTypeLine)
            ELSE /\ HasDecl(OpFile(j).content, RequestDecl)
                 /\ HasLine(OpFile(j).content, RequestTypeLine)
                 /\ DeclExpr(OpFile(j).content, RequestDecl) =
                       IF IsDirectReference(OpRecord(j).request)
                       THEN <<LastSegment(OpRecord(j).request.ref)>>
                       ELSE InlineRequest(OpRecord(j).request)

C18_Witness ==
    /\ pc = "done"
    /\ openApiDoc = MergeDoc
    /\ Len(operationSchemas) = 3
    /\ DeclExpr(OpFile(1).content, RequestDecl) = <<"User">>
    /\ IsNull(OpRecord(2).request)
    /\ ~HasDecl(OpFile(2).content, RequestDecl)
    /\ DeclExpr(OpFile(3).content, RequestDecl) =
          <<"z.object({\n", "  ", "item", ": ",
            "z.object({\n", "  ", "id", ": ", "z.string()", ",\n",
            "  ", "email", ": ", "z.string()", ".email()", ".optional()", "\n})",
            ".optional()", "\n})", ".strict()">>

---------------------------------------------------------------------------
(* Imports of the component artifacts *)

\* the child nodes of a schema node
Children(n) ==
    UNION {IF Has(n, f) THEN {n[f][i] : i \in 1..Len(n[f])} ELSE {} :
              f \in {"allOf", "oneOf", "anyOf"}}
    \cup (IF Has(n, "items") THEN {n.items} ELSE {})
    \cup (IF Has(n, "properties")
          THEN {n.properties[i].value : i \in 1..Len(n.properties)} ELSE {})
    \cup (IF Has(n, "additionalProperties") /\ ~Has(n.additionalProperties, "bool")
          THEN {n.additionalProperties} ELSE {})

RECURSIVE TreeRefs(_)
\* the names referenced from the tree of a schema node
TreeRefs(n) ==
    IF IsNull(n) THEN {}
    ELSE IF Has(n, "ref") THEN {LastSegment(n.ref)}
    ELSE UNION {TreeRefs(c) : c \in Children(n)}

\* the direct-dependency set the converter holds for the component
DependencySet(name) ==
    {getDependencies(dependencies, name)[i] :
        i \in 1..Len(getDependencies(dependencies, name))}

\* C19: once the artifact of a component exists, the dependency set of the
\* component holds exactly the names referenced from the component's own
\* schema tree, and the artifact has exactly one import line for each of them
\* that is in the component table and none for any other name.
C19_ImportsAreDirectDependencies ==
    InRun =>
        \A n \in ComponentNames :
            HasKey(generatedSchemas, n) =>
                /\ DependencySet(n) = TreeRefs(Lookup(SchemasOf(openApiDoc), n))
                /\ \A d \in ShapeNames :
                      ImportCount(Lookup(generatedSchemas, n).content, d) =
                          IF d \in TreeRefs(Lookup(SchemasOf(openApiDoc), n)) /\ ~Absent(d)
                          THEN 1 ELSE 0

---------------------------------------------------------------------------
(* The dependency graph *)

\* the edges owner -> referenced name of a dependency map
Edges(deps) ==
    UNION {{<<deps[i].key, deps[i].value[j]>> : j \in 1..Len(deps[i].value)} :
              i \in 1..Len(deps)}

\* C20: during a run the dependency graph changes only by the conversion of
\* a component, which adds edges from that component to names its tree
\* refers to and nothing else (the edge of every reference under a direct
\* property is added); no step removes an edge, and the conversions of the
\* operation assembler, all in inline mode, leave the graph of its converter
\* as it is.
C20_DependenciesOnlyGrowByReferences ==
    [][/\ (pc = "components" /\ pc' = "components") =>
             /\ Edges(dependencies') \ Edges(dependencies) \subseteq
                    {<<Head(keys), r>> :
                        r \in TreeRefs(Lookup(SchemasOf(openApiDoc), Head(keys)))}
             /\ \A r \in ShapeNames :
                    RefKeys(SchemasOf(openApiDoc), Head(keys), r) # {} =>
                        <<Head(keys), r>> \in Edges(dependencies')
       /\ (pc \in {"components", "operations", "emit"}) =>
             /\ Edges(dependencies) \subseteq Edges(dependencies')
             /\ opDependencies' = opDependencies
       /\ (pc \in {"operations", "emit"}) => dependencies' = dependencies]_vars

C20_Witness ==
    /\ pc = "done"
    /\ openApiDoc \in TableDocs
    /\ Edges(dependencies) = {<<Names[1], Names[NumNames]>>, <<Names[NumNames], Names[1]>>}
    /\ Len(operationFiles) = 1
    /\ IdentIn(DeclExpr(operationFiles[1].content, RequestDecl), Names[1])
    /\ opDependencies = <<>>

---------------------------------------------------------------------------
(* Termination of the inline conversion *)

WalkDone == cv.work = <<>>

\* every deferred reference was returned for a name on the path stack of its
\* call, and the conversion never made as many expansions as the model allows
EndsAtStack ==
    /\ \A i \in 1..Len(cv.lazies) : Includes(cv.lazies[i].path, cv.lazies[i].name)
    /\ Len(cv.expansions) < MaxExpansions

\* C21: a conversion in inline mode returns: its pending calls run out, for
\* every node and every component table of the model, the tables with a
\* self-reference and with two components that refer to each other included;
\* every deferred reference it returns names a shape on the path stack.
C21_InlineConversionTerminates ==
    /\ [](cv.isInline => EndsAtStack)
    /\ (cv.isInline => <>WalkDone)

C21_Witness ==
    /\ WalkDone
    /\ cv.isInline
    /\ cv.property = RefTo("A")
    /\ cv.expansions = <<[name |-> "A", path |-> <<>>, depth |-> 0],
                         [name |-> "B", path |-> <<"A">>, depth |-> 1]>>
    /\ cv.lazies = <<[name |-> "A", path |-> <<"A", "B">>]>>

---------------------------------------------------------------------------
(* Emission order *)

\* the sequence without the later occurrences of its elements
RECURSIVE Dedupe(_)
Dedupe(xs) ==
    IF xs = <<>> THEN <<>>
    ELSE LET front == Dedupe(SubSeq(xs, 1, Len(xs) - 1))
         IN  IF \E i \in 1..Len(front) : front[i] = xs[Len(xs)]
             THEN front ELSE Append(front, xs[Len(xs)])

\* the child nodes of a node in the order the document declares them
DeclaredChildren(n) ==
    (IF Has(n, "allOf") THEN n.allOf ELSE <<>>)
    \o (IF Has(n, "oneOf") THEN n.oneOf ELSE <<>>)
    \o (IF Has(n, "anyOf") THEN n.anyOf ELSE <<>>)
    \o (IF Has(n, "items") THEN <<n.items>> ELSE <<>>)
    \o (IF Has(n, "properties")
        THEN [i \in 1..Len(n.properties) |-> n.properties[i].value] ELSE <<>>)
    \o (IF Has(n, "additionalProperties") /\ ~Has(n.additionalProperties, "bool")
        THEN <<n.additionalProperties>> ELSE <<>>)

RECURSIVE RefOrder(_)
RECURSIVE RefOrderAll(_)
\* the names a tree refers to, in the order the references are declared
RefOrder(n) ==
    IF IsNull(n) THEN <<>>
    ELSE IF Has(n, "ref") THEN <<LastSegment(n.ref)>>
    ELSE RefOrderAll(DeclaredChildren(n))

RefOrderAll(ns) ==
    IF ns = <<>> THEN <<>> ELSE RefOrder(Head(ns)) \o RefOrderAll(Tail(ns))

\* the names of the import lines of a content, in their order
ImportSeq(content) ==
    LET at == SelectSeq([i \in 1..Len(content) |-> i],
                        LAMBDA i : i < Len(content) /\ content[i] = "import { ")
    IN  [k \in 1..Len(at) |-> content[at[k] + 1]]

\* the operations the path table declares, with their declared responses
DeclaredOperations ==
    UNION {{PathsOf(openApiDoc)[p].value[m].value :
               m \in {k \in 1..Len(PathsOf(openApiDoc)[p].value) :
                         /\ Has(PathsOf(openApiDoc)[p].value[k].value, "operationId")
                         /\ PathsOf(openApiDoc)[p].value[k].value.operationId # ""
                         /\ Has(PathsOf(openApiDoc)[p].value[k].value, "responses")}} :
              p \in 1..Len(PathsOf(openApiDoc))}

\* the artifact of the operation with the identifier
FileOfOperation(id) ==
    OpFile(CHOOSE j \in 1..Len(operationSchemas) : operationSchemas[j].key = id).content

\* C22: in the artifacts of a run, the properties of a component's object
\* validator stand in the order the schema declares them, the import lines
\* of a component stand in the order its tree declares the references, and
\* the response validators of an operation stand in the order the operation
\* declares its status codes.
C22_DeclarationOrder ==
    pc = "done" =>
        /\ \A n \in ComponentNames :
              HasKey(generatedSchemas, n) =>
                  /\ ImportSeq(Lookup(generatedSchemas, n).content) =
                        SelectSeq(Dedupe(RefOrder(Lookup(SchemasOf(openApiDoc), n))),
                                  LAMBDA d : ImportCount(Lookup(generatedSchemas, n).content, d) = 1)
                  /\ HasProperties(SchemasOf(openApiDoc), n) =>
                        \A i \in 1..Len(Lookup(SchemasOf(openApiDoc), n).properties) :
                            \A j \in 1..(i - 1) :
                                PropStart(ComponentExpr(n),
                                          Lookup(SchemasOf(openApiDoc), n).properties[j].key)
                                < PropStart(ComponentExpr(n),
                                            Lookup(SchemasOf(openApiDoc), n).properties[i].key)
        /\ \A op \in DeclaredOperations :
              \A i \in 1..Len(op.responses) :
                  \A j \in 1..(i - 1) :
                      DeclStart(FileOfOperation(op.operationId), ResponseDecl(op.responses[j].key))
                      < DeclStart(FileOfOperation(op.operationId),
                                  ResponseDecl(op.responses[i].key))

---------------------------------------------------------------------------
(* The result of generate() (C23) *)

\* the names of the component table that have a schema, in the order of the table
SchemaNames ==
    SelectSeq(Keys(SchemasOf(openApiDoc)),
              LAMBDA n : ~IsNull(Lookup(SchemasOf(openApiDoc), n)))

\* the non-empty operation identifiers of the entries of the path table
DeclaredIds ==
    UNION {{PathsOf(openApiDoc)[p].value[m].value.operationId :
               m \in {k \in 1..Len(PathsOf(openApiDoc)[p].value) :
                         /\ Has(PathsOf(openApiDoc)[p].value[k].value, "operationId")
                         /\ PathsOf(openApiDoc)[p].value[k].value.operationId # ""}} :
              p \in 1..Len(PathsOf(openApiDoc))}

\* C23: the result of a run is the component artifacts, one per component
\* with a schema in the order of the component table, followed by the
\* operation artifacts: exactly one artifact (file schema.ts, group = the
\* identifier) per distinct non-empty operationId of the path table, and
\* nothing for the entries without an operationId.
C23_ComponentsThenOperations ==
    pc = "done" =>
        /\ Len(result) = Len(SchemaNames) + Cardinality(DeclaredIds)
        /\ \A i \in 1..Len(SchemaNames) :
              /\ result[i].dirName = "_components"
              /\ result[i].fileName = SchemaNames[i] \o ".ts"
        /\ \A id \in DeclaredIds :
              Cardinality({i \in (Len(SchemaNames) + 1)..Len(result) :
                              /\ result[i].dirName = id
                              /\ result[i].fileName = "schema.ts"}) = 1

\* the run on the document with entries that are no operations has returned
\* the component artifact followed by the one operation artifact
C23_Witness ==
    /\ pc = "done"
    /\ openApiDoc = OrderDoc
    /\ [i \in 1..Len(result) |-> KeyOf(i)] =
          <<<<"_components", "User.ts">>, <<"order.create", "schema.ts">>>>

---------------------------------------------------------------------------
(* Compositions (C24, C25) *)

\* what the call in cv yields for the child alone, with the arguments of the call
ChildOut(child) ==
    convertType(cv.schemas, <<>>, child, cv.currentPath, cv.schemaName, cv.isInline).out

\* the conversions of the children of a list, in the order of the list
ChildOuts(list) == [i \in 1..Len(list) |-> ChildOut(list[i])]

\* C24: the conversion of an allOf node with more than one child is the
\* intersection combinator over the conversions of all children in their
\* order; with exactly one child it is the conversion of that child, unwrapped.
C24_AllOfIntersectsOrUnwraps ==
    (cv.step = "converted" /\ ~IsNull(cv.property) /\ Has(cv.property, "allOf")) =>
        /\ Len(cv.property.allOf) > 1 =>
              cv.out = <<"z.intersection(">> \o Join(ChildOuts(cv.property.allOf), ", ")
                       \o <<")">>
        /\ Len(cv.property.allOf) = 1 => cv.out = ChildOut(cv.property.allOf[1])

\* an allOf with the single child User has been converted by name
C24_Witness ==
    /\ cv.step = "converted"
    /\ cv.property = [allOf |-> <<RefTo("User")>>]
    /\ ~cv.isInline
    /\ cv.out = <<"User">>

\* C25: for every child list and every path, owner and mode, the conversion
\* of the oneOf node and of the anyOf node over the list are the same
\* expression, the union combinator over the conversions of the children.
C25_OneOfIsAnyOf ==
    \A k \in {"oneOf", "anyOf"} :
        (cv.step = "converted" /\ ~IsNull(cv.property) /\ Has(cv.property, k)
         /\ DOMAIN cv.property = {k}) =>
            /\ cv.out = <<"z.union([">> \o Join(ChildOuts(cv.property[k]), ", ") \o <<"])">>
            /\ cv.out = convertType(cv.schemas, <<>>,
                                    (IF k = "oneOf" THEN "anyOf" ELSE "oneOf") :> cv.property[k],
                                    cv.currentPath, cv.schemaName, cv.isInline).out

\* an anyOf with the single child User has been converted to a union of one
C25_Witness ==
    /\ cv.step = "converted"
    /\ cv.property = [anyOf |-> <<RefTo("User")>>]
    /\ ~cv.isInline
    /\ cv.out = <<"z.union([", "User", "])">>

---------------------------------------------------------------------------
(* The calls of generateSchemaFile (C26) *)

\* C26: whenever generateSchemaFile is about to be called, the processing
\* stack is empty and the cache does not hold the name, so neither the
\* cycle branch (nothing is ever reported) nor the cache branch is taken;
\* once generateComponentSchemas has returned, the stack is empty and the
\* cache holds exactly one entry per name of the table that has a schema.
C26_CallsAreNeverNested ==
    /\ InRun => (processingStack = <<>> /\ diagnostics = <<>>)
    /\ (pc = "components" /\ keys # <<>>) => ~HasKey(generatedSchemas, Head(keys))
    /\ ComponentsDone =>
          /\ Keys(generatedSchemas) = SchemaNames
          /\ \A i \in 1..Len(generatedSchemas) :
                \A j \in 1..Len(generatedSchemas) :
                    generatedSchemas[i].key = generatedSchemas[j].key => i = j

\* Tree, which refers to Leaf, has been generated and the call for Leaf is
\* about to start on an empty stack and a cache that holds Tree only
C26_Witness ==
    /\ pc = "components"
    /\ openApiDoc = TreeDoc
    /\ keys # <<>>
    /\ Head(keys) = "Leaf"
    /\ Keys(generatedSchemas) = <<"Tree">>
    /\ processingStack = <<>>

---------------------------------------------------------------------------
(* Self-import (C27) *)

\* the component has a schema whose tree refers to the component itself
RefersToItself(n) ==
    /\ HasSchema(SchemasOf(openApiDoc), n)
    /\ n \in TreeRefs(Lookup(SchemasOf(openApiDoc), n))

\* C27: once generateComponentSchemas has returned, every component of the
\* table whose schema refers to the component's own name has its own name in
\* its direct-dependency set and exactly one import line for its own name in
\* its artifact.
C27_SelfReferenceImportsItself ==
    ComponentsDone =>
        \A n \in ComponentNames :
            RefersToItself(n) =>
                /\ n \in DependencySet(n)
                /\ HasKey(generatedSchemas, n)
                /\ ImportCount(Lookup(generatedSchemas, n).content, n) = 1

---------------------------------------------------------------------------
(* The path stack (C28) *)

\* no name stands twice on the path
NoNameTwice(path) ==
    \A i \in 1..Len(path) : \A j \in 1..Len(path) : path[i] = path[j] => i = j

\* the object node has properties only, and each of them is a reference
OnlyReferences(n) ==
    /\ IsObjectNode(n)
    /\ Has(n, "properties")
    /\ ~Has(n, "additionalProperties")
    /\ \A i \in 1..Len(n.properties) : IsReference(n.properties[i].value)

\* the expansions the outermost call made itself: those on its own path stack
OwnExpansions == SelectSeq(cv.expansions, LAMBDA e : e.depth = 0)

\* C28: the path stack of every call of convertType holds no name twice.  In
\* component mode it is the one-element stack of the component, in every
\* call and without any expansion.  In inline mode it has grown by one name
\* per expansion the call is nested in, a name is expanded only when it is
\* not on the stack, and the stack is never longer than the component table;
\* the properties of one object are all converted on the stack of the
\* object, so that each reference among them to a component that is not on
\* that stack is expanded, however often the component is referenced.
C28_PathStackHoldsNoNameTwice ==
    /\ \A i \in 1..Len(cv.work) :
          /\ NoNameTwice(cv.work[i].path)
          /\ cv.work[i].inline = cv.isInline
          /\ ~cv.isInline =>
                /\ cv.work[i].path = <<cv.schemaName>>
                /\ cv.work[i].depth = 0
          /\ cv.isInline =>
                /\ Len(cv.work[i].path) = Len(cv.currentPath) + cv.work[i].depth
                /\ Len(cv.work[i].path) <= Len(cv.schemas)
    /\ ~cv.isInline => cv.expansions = <<>>
    /\ \A i \in 1..Len(cv.expansions) :
          /\ ~Includes(cv.expansions[i].path, cv.expansions[i].name)
          /\ Len(cv.expansions[i].path) = Len(cv.currentPath) + cv.expansions[i].depth
          /\ cv.expansions[i].depth = 0 => cv.expansions[i].path = cv.currentPath
    /\ (WalkDone /\ cv.isInline /\ OnlyReferences(cv.property)) =>
          [i \in 1..Len(OwnExpansions) |-> OwnExpansions[i].name] =
             SelectSeq([i \in 1..Len(Entries(cv.property.properties)) |->
                           LastSegment(Entries(cv.property.properties)[i].value.ref)],
                       LAMBDA name : /\ ~IsNull(Lookup(cv.schemas, name))
                                     /\ ~Includes(cv.currentPath, name))

\* the object that refers to A in two properties has been converted inline:
\* A was expanded twice on the empty stack, and each expansion ran into the
\* reference back to A below B
C28_Witness ==
    /\ WalkDone
    /\ cv.isInline
    /\ cv.property = [type |-> "object",
                      properties |-> <<Entry("id", RefTo("A")), Entry("next", RefTo("A"))>>]
    /\ [i \in 1..Len(OwnExpansions) |-> OwnExpansions[i].name] = <<"A", "A">>
    /\ cv.lazies = <<[name |-> "A", path |-> <<"A", "B">>], [name |-> "A", path |-> <<"A", "B">>]>>

====
